---- MODULE Spec2Model ----
(***************************************************************************)
(* Model of the agentic orchestration engine of autonomous-ai-team:        *)
(* AgentBase.run (src/core/agent_base.py), the generic tool dispatch       *)
(* (src/core/tools.py) and the Manager's delegation protocol               *)
(* (src/agents/manager.py).                                                *)
(*                                                                         *)
(* A run is a frame on a call stack.  The caller's run is frames[1]; a     *)
(* specialist run started by the Manager's dispatch is frames[2].  Every   *)
(* action acts on the top frame, which is the coroutine that is running.   *)
(* The variable events is the trace of the calls the runs made: model      *)
(* calls, starts and ends of the handling of tool_use blocks, and the      *)
(* calls to the registry, to a tool and to a specialist made in between.   *)
(*                                                                         *)
(* The token manager (src/core/token_manager.py), the model router         *)
(* (src/core/model_router.py) and the prompt cache                         *)
(* (src/core/prompt_cache.py) are singletons that no agent calls; their    *)
(* operations are the actions of BudgetSpec, RouterSpec and CacheSpec.     *)
(* HostSpec lets the host call them before it runs an agent.               *)
(*                                                                         *)
(* SessionSpec runs agents one run after the other.  ConcSpec runs one     *)
(* agent for two requests at a time: the variable suspended holds the      *)
(* frames of the run that waits while the other one runs.                  *)
(***************************************************************************)
EXTENDS Integers, Sequences, FiniteSets, TLC

VARIABLES frames, conversation_history, environment, events, agents, suspended,
          token_manager, today, last,
          model_router, first_route, prompt_cache

\* the state of the agents and their runs
runVars == <<frames, conversation_history, environment, events, agents, suspended>>
\* the token manager singleton, the date of the clock, and what the last
\* call to one of the services gave back
budgetVars == <<token_manager, today, last>>
\* the model router singleton, and the first route_task call made to it
routerVars == <<model_router, first_route>>
\* the prompt cache singleton
cacheVars == <<prompt_cache>>
\* the services that no run calls
serviceVars == <<budgetVars, routerVars, cacheVars>>

vars == <<frames, conversation_history, environment, events, agents, suspended,
          token_manager, today, last, model_router, first_route, prompt_cache>>

(***************************************************************************)
(* Bounds of the model.                                                    *)
(***************************************************************************)
\* largest max_iterations the caller passes to run
MaxIter == 2
\* most specialist runs the model's responses start within one caller's run
MaxDelegations == 1

(***************************************************************************)
(* Python values that the model's tool-invocation blocks carry.            *)
(***************************************************************************)
PyNone == [t |-> "NoneType"]
PyStr(s) == [t |-> "str", v |-> s]
PyDict(pairs) == [t |-> "dict", items |-> pairs]

\* bool(value)
Truthy(value) ==
    CASE value.t = "NoneType" -> FALSE
      [] value.t = "str" -> value.v # ""
      [] value.t = "dict" -> Len(value.items) > 0
      [] OTHER -> TRUE

\* value[:100] succeeds for a str and raises TypeError for None
Sliceable(value) == value.t = "str"

\* dict.get(key): None when the key is absent
Get(input, key) == IF key \in DOMAIN input THEN input[key] ELSE PyNone

\* an empty dict of keyword arguments
NoArgs == [k \in {} |-> PyNone]

(***************************************************************************)
(* Agents.                                                                 *)
(***************************************************************************)
ManagerId == "manager"

\* keys of ManagerAgent.specialist_agents
SpecialistIds ==
    {"analyst", "growth_hacker", "sales_machine", "system_builder", "brand_builder"}

AgentIds == {ManagerId} \cup SpecialistIds

\* default of run's max_iterations parameter
DefaultMaxIterations == 10

(***************************************************************************)
(* Tool names are sequences of tokens, so that startswith, endswith and    *)
(* replace act on them as they act on the Python strings.                  *)
(***************************************************************************)
CallPrefix == "call_"
AgentSuffix == "_agent"

RECURSIVE JoinTokens(_)
JoinTokens(toks) ==
    IF toks = <<>> THEN "" ELSE Head(toks) \o JoinTokens(Tail(toks))

StartsWithCall(name) == Len(name) >= 1 /\ name[1] = CallPrefix
EndsWithAgent(name) == Len(name) >= 1 /\ name[Len(name)] = AgentSuffix

\* str.replace(tok, ""): every occurrence is removed
Replace(name, tok) == SelectSeq(name, LAMBDA t : t # tok)

\* tool_name.replace("call_", "").replace("_agent", "")
ExtractAgentId(name) == JoinTokens(Replace(Replace(name, CallPrefix), AgentSuffix))

IsSpecialistCall(name) == StartsWithCall(name) /\ EndsWithAgent(name)

ApprovalTool == <<"request_human_approval">>

CallTool(id) == <<CallPrefix, id, AgentSuffix>>

(***************************************************************************)
(* Tool Registry.                                                          *)
(***************************************************************************)
\* names registered by _register_default_tools
RegisteredTools == {<<"web_search">>, <<"extract_data_from_url">>, <<"store_context">>}

\* parameters of each tool's execute(): required and defaulted
ToolParams(name) ==
    CASE name = <<"web_search">> ->
            [required |-> {"query"}, optional |-> {"num_results"}]
      [] name = <<"extract_data_from_url">> ->
            [required |-> {"url"}, optional |-> {}]
      [] name = <<"store_context">> ->
            [required |-> {"key", "value"}, optional |-> {"category"}]

\* tool.execute(**kwargs) binds only when every required parameter is given
\* and no unknown keyword is passed
ArgsBind(name, kwargs) ==
    /\ ToolParams(name).required \subseteq DOMAIN kwargs
    /\ DOMAIN kwargs \subseteq (ToolParams(name).required \cup ToolParams(name).optional)

TypeErrorMsg == "execute() got unexpected or missing arguments"

\* the results a tool's execute can return once its arguments are bound
ToolOutcomes(name, kwargs) ==
    CASE name = <<"web_search">> ->
            { [success |-> TRUE, query |-> kwargs["query"], source |-> "brave"],
              [success |-> FALSE, error |-> "No search API key configured", results |-> <<>>] }
      [] name = <<"extract_data_from_url">> ->
            { [success |-> TRUE, url |-> kwargs["url"], status_code |-> 200],
              [success |-> FALSE, url |-> kwargs["url"], error |-> "HTTP error"] }
      [] name = <<"store_context">> ->
            { [success |-> TRUE, key |-> kwargs["key"],
               category |-> IF "category" \in DOMAIN kwargs THEN kwargs["category"]
                            ELSE PyStr("general"),
               message |-> "Context stored successfully"] }

ToolNotFound(name) ==
    [success |-> FALSE, error |-> "Tool '" \o JoinTokens(name) \o "' not found"]

\* execute_tool without the check of the lookup: an unregistered name raises
\* the AttributeError of None.execute
ExecuteToolNoLookup(name, kwargs) ==
    IF name \notin RegisteredTools
    THEN { [raised |-> TRUE, error |-> "'NoneType' object has no attribute 'execute'",
            executed |-> <<>>] }
    ELSE IF ~ArgsBind(name, kwargs)
         THEN { [raised |-> TRUE, error |-> TypeErrorMsg, executed |-> <<name>>] }
         ELSE { [raised |-> FALSE, value |-> r, executed |-> <<name>>] :
                r \in ToolOutcomes(name, kwargs) }

\* ToolRegistry.execute_tool: the set of outcomes; raised = TRUE is the
\* TypeError of the call tool.execute(**kwargs); executed lists the tools
\* whose execute the call invoked
ExecuteTool(name, kwargs) ==
    IF name \notin RegisteredTools
    THEN { [raised |-> FALSE, value |-> ToolNotFound(name), executed |-> <<>>] }
    ELSE IF ~ArgsBind(name, kwargs)
         THEN { [raised |-> TRUE, error |-> TypeErrorMsg, executed |-> <<name>>] }
         ELSE { [raised |-> FALSE, value |-> r, executed |-> <<name>>] :
                r \in ToolOutcomes(name, kwargs) }

(***************************************************************************)
(* The tool sets that the agents pass to the model, by the names of the    *)
(* tools as the code spells them.                                          *)
(***************************************************************************)
\* name.startswith(prefix), name.endswith(suffix)
StrStartsWith(name, prefix) ==
    Len(name) >= Len(prefix) /\ SubSeq(name, 1, Len(prefix)) = prefix
StrEndsWith(name, suffix) ==
    Len(name) >= Len(suffix) /\ SubSeq(name, Len(name) - Len(suffix) + 1, Len(name)) = suffix

\* name.replace(old, ""): every occurrence of old is removed, left to right
RECURSIVE StrRemove(_, _)
StrRemove(name, old) ==
    IF Len(name) < Len(old) THEN name
    ELSE IF SubSeq(name, 1, Len(old)) = old
    THEN StrRemove(SubSeq(name, Len(old) + 1, Len(name)), old)
    ELSE SubSeq(name, 1, 1) \o StrRemove(SubSeq(name, 2, Len(name)), old)

\* the test and the extraction of the Manager's dispatch on a name
StrIsSpecialistCall(name) == StrStartsWith(name, "call_") /\ StrEndsWith(name, "_agent")
StrExtractAgentId(name) == StrRemove(StrRemove(name, "call_"), "_agent")

\* tool_registry.get_all_claude_tools(): the tools in the order of registration
GenericToolNames == <<"web_search", "extract_data_from_url", "store_context">>

\* the Manager's tool list with the tool of the brand builder misspelt
AvailableToolsMisspelt(a) ==
    IF a = "manager"
    THEN GenericToolNames \o
         <<"call_analyst_agent", "call_growth_hacker_agent", "call_sales_machine_agent",
           "call_system_builder_agent", "call_brandbuilder_agent", "request_human_approval">>
    ELSE GenericToolNames

\* available_tools of AgentBase and of ManagerAgent
AvailableTools(a) ==
    IF a = "manager"
    THEN GenericToolNames \o
         <<"call_analyst_agent", "call_growth_hacker_agent", "call_sales_machine_agent",
           "call_system_builder_agent", "call_brand_builder_agent", "request_human_approval">>
    ELSE GenericToolNames

(***************************************************************************)
(* Content blocks, responses and turns.                                    *)
(***************************************************************************)
Text(t) == [type |-> "text", text |-> t]
ToolUse(id, name, input) == [type |-> "tool_use", id |-> id, name |-> name, input |-> input]

NoResponse == [content |-> <<>>, stop_reason |-> "none",
               usage |-> [input_tokens |-> 0, output_tokens |-> 0]]
NoResult == [pending |-> TRUE]

UserTurn(content) == [role |-> "user", content |-> content]
AssistantTurn(content) == [role |-> "assistant", content |-> content]

\* the blocks of a response that invoke a tool, in order
ToolUseBlocks(content) == SelectSeq(content, LAMBDA b : b.type = "tool_use")

\* the texts of the text blocks of a response, in order
TextParts(content) ==
    LET texts == SelectSeq(content, LAMBDA b : b.type = "text")
    IN  [k \in 1..Len(texts) |-> texts[k].text]

\* sep.join(parts)
RECURSIVE Join(_, _)
Join(sep, parts) ==
    IF parts = <<>> THEN ""
    ELSE IF Len(parts) = 1 THEN parts[1]
    ELSE parts[1] \o sep \o Join(sep, Tail(parts))

\* _extract_result without its test of the block type
ExtractResultAllBlocks(response) ==
    Join("\n", [k \in 1..Len(response.content) |->
                    IF response.content[k].type = "text"
                    THEN response.content[k].text ELSE ""])

\* AgentBase._extract_result
ExtractResult(response) == Join("\n", TextParts(response.content))

\* the bullets that _build_user_message renders for the context items
RECURSIVE RenderItems(_)
RenderItems(items) ==
    IF items = <<>> THEN ""
    ELSE "- **" \o items[1][1] \o "**: " \o items[1][2] \o "\n" \o RenderItems(Tail(items))

AttributeErrorMsg == "'str' object has no attribute 'items'"
SubscriptErrorMsg == "'NoneType' object is not subscriptable"
ApiErrorMsg == "APIConnectionError"

\* AgentBase._build_user_message; raised = TRUE is the AttributeError of
\* context.items() on a context that is not a mapping
BuildUserMessage(task, context) ==
    IF ~Truthy(context)
    THEN [raised |-> FALSE, value |-> task.v]
    ELSE IF context.t # "dict"
         THEN [raised |-> TRUE, error |-> AttributeErrorMsg]
         ELSE [raised |-> FALSE,
               value |-> task.v \o "\n\n**Additional Context:**\n" \o RenderItems(context.items)]

(***************************************************************************)
(* The three return statements of AgentBase.run.                           *)
(***************************************************************************)
MaxIterationsMsg == "Max iterations reached"

\* the success return filling every field of a uniform record
ReturnSuccessUniform(f, response, elapsed) ==
    [success |-> TRUE,
     agent_id |-> f.agent,
     result |-> ExtractResult(response),
     error |-> "",
     iterations |-> f.iteration,
     elapsed_seconds |-> elapsed,
     usage |-> [input_tokens |-> response.usage.input_tokens,
                output_tokens |-> response.usage.output_tokens]]

\* the success return reporting the tokens of all the responses of the run
ReturnSuccessTotal(f, response, elapsed) ==
    [success |-> TRUE,
     agent_id |-> f.agent,
     result |-> ExtractResult(response),
     iterations |-> f.iteration,
     elapsed_seconds |-> elapsed,
     usage |-> f.spent]

\* agent_base.py:127
ReturnSuccess(f, response, elapsed) ==
    [success |-> TRUE,
     agent_id |-> f.agent,
     result |-> ExtractResult(response),
     iterations |-> f.iteration,
     elapsed_seconds |-> elapsed,
     usage |-> [input_tokens |-> response.usage.input_tokens,
                output_tokens |-> response.usage.output_tokens]]

\* the max-iterations return counting the completed passes from zero
ReturnMaxIterationsStale(f) ==
    [success |-> FALSE,
     error |-> MaxIterationsMsg,
     agent_id |-> f.agent,
     iterations |-> f.iteration - 1]

\* agent_base.py:164
ReturnMaxIterations(f) ==
    [success |-> FALSE,
     error |-> MaxIterationsMsg,
     agent_id |-> f.agent,
     iterations |-> f.iteration]

\* the exception return that drops the exception's message
ReturnExceptionGeneric(f, msg) ==
    [success |-> FALSE,
     error |-> "Agent run failed",
     agent_id |-> f.agent]

\* agent_base.py:173
ReturnException(f, msg) ==
    [success |-> FALSE,
     error |-> msg,
     agent_id |-> f.agent]

\* run without its except clause: the exception leaves run
RunExceptReraise(f, msg) ==
    [f EXCEPT !.pc = "raised", !.raised = msg]

\* the except clause of run: the frame returns the failure RunResult
RunExcept(f, msg) ==
    [f EXCEPT !.pc = "returned", !.exit = "except", !.result = ReturnException(f, msg)]

\* the while condition off by one
LoopConditionInclusive(f) == f.iteration <= f.max_iterations

\* the while condition of run
LoopCondition(f) == f.iteration < f.max_iterations

\* the frame of a run whose pass counter is kept on the agent and goes on
\* from the responses that the agent has stored
FreshFrameCounterOnAgent(a, task, context, mi) ==
    [agent |-> a, task |-> task, context |-> context, max_iterations |-> mi,
     pc |-> "entry", iteration |-> Len(conversation_history[a]), calls |-> 0,
     delegations |-> 0,
     spent |-> [input_tokens |-> 0, output_tokens |-> 0],
     tools |-> AvailableTools(a),
     messages |-> <<>>, response |-> NoResponse,
     bi |-> 0, tool_results |-> <<>>,
     exit |-> "none", result |-> NoResult, raised |-> ""]

\* the frame of a run at its first statement; tools is self.available_tools,
\* which every model call of the run passes; calls, delegations and spent
\* (the tokens of the responses the run received) are kept for the
\* properties, run has no such variables
FreshFrame(a, task, context, mi) ==
    [agent |-> a, task |-> task, context |-> context, max_iterations |-> mi,
     pc |-> "entry", iteration |-> 0, calls |-> 0, delegations |-> 0,
     spent |-> [input_tokens |-> 0, output_tokens |-> 0],
     tools |-> AvailableTools(a),
     messages |-> <<>>, response |-> NoResponse,
     bi |-> 0, tool_results |-> <<>>,
     exit |-> "none", result |-> NoResult, raised |-> ""]

\* run up to the loop head: the logging of task[:100] is outside the try and
\* raises to the caller; building the first message is inside it
EnterRun(a, task, context, mi) ==
    LET f == FreshFrame(a, task, context, mi)
    IN  IF ~Sliceable(task)
        THEN [f EXCEPT !.pc = "raised", !.raised = SubscriptErrorMsg]
        ELSE LET m == BuildUserMessage(task, context)
             IN  IF m.raised
                 THEN RunExcept(f, m.error)
                 ELSE [f EXCEPT !.pc = "loop", !.messages = <<UserTurn(m.value)>>]

\* the sum of two usages
AddUsage(u, v) ==
    [input_tokens |-> u.input_tokens + v.input_tokens,
     output_tokens |-> u.output_tokens + v.output_tokens]

\* the branch of run with continue in place of break
HandleResponseContinue(f, response, elapsed) ==
    LET g == [f EXCEPT !.iteration = @ + 1, !.calls = @ + 1, !.response = response,
                       !.spent = AddUsage(@, response.usage)]
    IN  IF response.stop_reason = "end_turn"
        THEN [g EXCEPT !.pc = "returned", !.exit = "end_turn",
                       !.result = ReturnSuccess(g, response, elapsed)]
        ELSE IF response.stop_reason = "tool_use"
        THEN [g EXCEPT !.pc = "dispatch", !.bi = 1, !.tool_results = <<>>]
        ELSE [g EXCEPT !.pc = "loop"]

\* the branch of run that does not dispatch the tool calls of the response
\* of the last pass, which no model call will read
HandleResponseSkipLast(f, response, elapsed) ==
    LET g == [f EXCEPT !.iteration = @ + 1, !.calls = @ + 1, !.response = response,
                       !.spent = AddUsage(@, response.usage)]
    IN  IF response.stop_reason = "end_turn"
        THEN [g EXCEPT !.pc = "returned", !.exit = "end_turn",
                       !.result = ReturnSuccess(g, response, elapsed)]
        ELSE IF response.stop_reason = "tool_use" /\ g.iteration < g.max_iterations
        THEN [g EXCEPT !.pc = "dispatch", !.bi = 1, !.tool_results = <<>>]
        ELSE [g EXCEPT !.pc = "returned", !.exit = "fallthrough",
                       !.result = ReturnMaxIterations(g)]

\* the branch of run on the stop reason of a response that arrived
HandleResponse(f, response, elapsed) ==
    LET g == [f EXCEPT !.iteration = @ + 1, !.calls = @ + 1, !.response = response,
                       !.spent = AddUsage(@, response.usage)]
    IN  IF response.stop_reason = "end_turn"
        THEN [g EXCEPT !.pc = "returned", !.exit = "end_turn",
                       !.result = ReturnSuccess(g, response, elapsed)]
        ELSE IF response.stop_reason = "tool_use"
        THEN [g EXCEPT !.pc = "dispatch", !.bi = 1, !.tool_results = <<>>]
        ELSE [g EXCEPT !.pc = "returned", !.exit = "fallthrough",
                       !.result = ReturnMaxIterations(g)]

\* the entry appended to conversation_history for a response
HistoryEntry(response) ==
    [role |-> "assistant", content |-> response.content, stop_reason |-> response.stop_reason]

(***************************************************************************)
(* Tool dispatch: AgentBase._handle_tool_use and the Manager's override.   *)
(***************************************************************************)
IsManager(a) == a = ManagerId

\* settings.is_development
IsDevelopment(env) == env = "development"

\* str(result) in the base dispatch, json.dumps(result, indent=2) in the Manager's
Serialize(a, value) ==
    IF IsManager(a) THEN [enc |-> "json", of |-> value] ELSE [enc |-> "str", of |-> value]

\* the entry appended to tool_results for a block
ToolResult(a, block, value) ==
    [type |-> "tool_result", tool_use_id |-> block.id, content |-> Serialize(a, value)]

\* _request_human_approval that approves in every environment
RequestHumanApprovalAuto(approval_request, env) ==
    [approved |-> TRUE,
     message |-> "Auto-approved in development mode",
     decision |-> Get(approval_request, "decision")]

\* ManagerAgent._request_human_approval
RequestHumanApproval(approval_request, env) ==
    IF IsDevelopment(env)
    THEN [approved |-> TRUE,
          message |-> "Auto-approved in development mode",
          decision |-> Get(approval_request, "decision")]
    ELSE [approved |-> FALSE,
          message |-> "Human approval required (not implemented yet)",
          decision |-> Get(approval_request, "decision"),
          action_required |-> "Implement human approval workflow"]

\* a call that the dispatch of a block makes: the registry's execute_tool, a
\* tool's execute, or a specialist's run
Call(op, arg) == [op |-> op, arg |-> arg]

\* the calls of tool_registry.execute_tool(tool_name, **tool_input)
RegistryCalls(name, executed) ==
    <<Call("execute_tool", name)>> \o [k \in 1..Len(executed) |-> Call("execute", executed[k])]

UnknownSpecialist(agent_id) ==
    [success |-> FALSE, error |-> "Unknown specialist agent: " \o agent_id]

\* ManagerAgent._call_specialist_agent up to the await of agent.run: the
\* logging of task[:100] raises before the lookup and outside the try
CallSpecialistAgent(agent_id, task, context) ==
    IF ~Sliceable(task)
    THEN [kind |-> "raise", error |-> SubscriptErrorMsg, calls |-> <<>>]
    ELSE IF agent_id \notin SpecialistIds
    THEN [kind |-> "result", value |-> UnknownSpecialist(agent_id), calls |-> <<>>]
    ELSE [kind |-> "run", agent |-> agent_id, task |-> task, context |-> context,
          calls |-> <<Call("run", <<agent_id, task, context>>)>>]

\* the except clause of _call_specialist_agent around agent.run
SpecialistFailed(agent_id, msg) ==
    [success |-> FALSE, agent_id |-> agent_id, error |-> msg]

\* the base loop intercepting the calls of specialists as the Manager's does
BaseDispatchIntercept(block) ==
    IF IsSpecialistCall(block.name)
    THEN { CallSpecialistAgent(ExtractAgentId(block.name),
                               Get(block.input, "task"), Get(block.input, "context")) }
    ELSE { IF o.raised THEN [kind |-> "raise", error |-> o.error,
                             calls |-> RegistryCalls(block.name, o.executed)]
                       ELSE [kind |-> "result", value |-> o.value,
                             calls |-> RegistryCalls(block.name, o.executed)] :
           o \in ExecuteTool(block.name, block.input) }

\* the body of the base loop for one tool_use block
BaseDispatch(block) ==
    { IF o.raised THEN [kind |-> "raise", error |-> o.error,
                        calls |-> RegistryCalls(block.name, o.executed)]
                  ELSE [kind |-> "result", value |-> o.value,
                        calls |-> RegistryCalls(block.name, o.executed)] :
      o \in ExecuteTool(block.name, block.input) }

\* the Manager's loop without the interception of specialist calls
ManagerDispatchNoIntercept(block, env) ==
    IF block.name = ApprovalTool
    THEN { [kind |-> "result", value |-> RequestHumanApproval(block.input, env),
            calls |-> <<>>] }
    ELSE BaseDispatch(block)

\* the Manager's loop answering the names it does not know by itself
ManagerDispatchOwnAnswer(block, env) ==
    IF IsSpecialistCall(block.name)
    THEN { CallSpecialistAgent(ExtractAgentId(block.name),
                               Get(block.input, "task"), Get(block.input, "context")) }
    ELSE IF block.name = ApprovalTool
    THEN { [kind |-> "result", value |-> RequestHumanApproval(block.input, env),
            calls |-> <<>>] }
    ELSE IF block.name \notin RegisteredTools
    THEN { [kind |-> "result", value |-> UnknownSpecialist(JoinTokens(block.name)),
            calls |-> <<>>] }
    ELSE BaseDispatch(block)

\* the body of the Manager's loop for one tool_use block
ManagerDispatch(block, env) ==
    IF IsSpecialistCall(block.name)
    THEN { CallSpecialistAgent(ExtractAgentId(block.name),
                               Get(block.input, "task"), Get(block.input, "context")) }
    ELSE IF block.name = ApprovalTool
    THEN { [kind |-> "result", value |-> RequestHumanApproval(block.input, env),
            calls |-> <<>>] }
    ELSE BaseDispatch(block)

\* what the dispatch of agent a does with one tool_use block
Dispatch(a, block, env) ==
    IF IsManager(a) THEN ManagerDispatch(block, env) ELSE BaseDispatch(block)

\* tool_results.insert(0, ...) in place of append
AppendResultFront(f, block, value) ==
    [f EXCEPT !.tool_results = <<ToolResult(f.agent, block, value)>> \o @,
              !.bi = @ + 1]

\* tool_results.append(...) and the step to the next block
AppendResult(f, block, value) ==
    [f EXCEPT !.tool_results = Append(@, ToolResult(f.agent, block, value)),
              !.bi = @ + 1]

\* only the tool results are appended, the assistant turn is left out
AppendTurnsResultsOnly(f) ==
    [f EXCEPT !.messages = @ \o <<UserTurn(f.tool_results)>>,
              !.pc = "loop"]

\* the assistant turn is taken from the agent's conversation_history, the
\* last response that any run of the agent stored
AppendTurnsFromHistory(f) ==
    LET h == conversation_history[f.agent]
    IN  [f EXCEPT !.messages = @ \o <<AssistantTurn(h[Len(h)].content),
                                      UserTurn(f.tool_results)>>,
                  !.pc = "loop"]

\* the two messages.append calls after _handle_tool_use returned
AppendTurns(f) ==
    [f EXCEPT !.messages = @ \o <<AssistantTurn(f.response.content),
                                  UserTurn(f.tool_results)>>,
              !.pc = "loop"]

(***************************************************************************)
(* The responses the model is let to give.                                 *)
(***************************************************************************)
WebSearch == <<"web_search">>
StoreContext == <<"store_context">>
NoSuchTool == <<"no_such_tool">>

Query == [query |-> PyStr("q")]
StoreOk == [key |-> PyStr("k"), value |-> PyStr("v")]
TaskOnly == [task |-> PyStr("sub")]
TaskCtx == [task |-> PyStr("sub"), context |-> PyDict(<< <<"k", "v">> >>)]
TaskBadCtx == [task |-> PyStr("sub"), context |-> PyStr("ctx")]
Approval == [decision |-> PyStr("d"), rationale |-> PyStr("r")]

Usage(i, o) == [input_tokens |-> i, output_tokens |-> o]
Response(stop, content, usage) == [content |-> content, stop_reason |-> stop, usage |-> usage]

EndTurnOne == Response("end_turn", <<Text("A")>>, Usage(1, 1))
EndTurnTwo ==
    Response("end_turn", <<Text("A"), ToolUse(0, WebSearch, Query), Text("B")>>, Usage(2, 2))
EndTurnNone == Response("end_turn", <<ToolUse(0, WebSearch, Query)>>, Usage(1, 2))
UseGeneric ==
    Response("tool_use",
             <<Text("A"), ToolUse(0, WebSearch, Query), ToolUse(0, NoSuchTool, NoArgs)>>,
             Usage(3, 1))
UseBadArgs ==
    Response("tool_use",
             <<ToolUse(0, StoreContext, StoreOk), ToolUse(0, WebSearch, NoArgs),
               ToolUse(0, StoreContext, StoreOk)>>,
             Usage(3, 2))
UseAnalyst ==
    Response("tool_use",
             <<ToolUse(0, CallTool("analyst"), TaskCtx), ToolUse(0, StoreContext, StoreOk)>>,
             Usage(4, 1))
UseGrowthBadCtx ==
    Response("tool_use", <<ToolUse(0, CallTool("growth_hacker"), TaskBadCtx)>>, Usage(4, 2))
UseAnalystNoTask ==
    Response("tool_use",
             <<ToolUse(0, StoreContext, StoreOk), ToolUse(0, CallTool("analyst"), NoArgs),
               ToolUse(0, StoreContext, StoreOk)>>,
             Usage(4, 3))
UseGhostApproval ==
    Response("tool_use",
             <<ToolUse(0, CallTool("ghost"), TaskOnly), ToolUse(0, ApprovalTool, Approval)>>,
             Usage(5, 1))
UseGrowth ==
    Response("tool_use", <<Text("C"), ToolUse(0, CallTool("growth_hacker"), TaskOnly)>>,
             Usage(6, 2))
UseGhostNoTask ==
    Response("tool_use",
             <<ToolUse(0, CallTool("ghost"), NoArgs), ToolUse(0, StoreContext, StoreOk)>>,
             Usage(5, 3))
UseCallOnly ==
    Response("tool_use", <<ToolUse(0, CallTool("analyst"), TaskOnly)>>, Usage(5, 2))
StopMaxTokens ==
    Response("max_tokens", <<Text("A"), ToolUse(0, StoreContext, StoreOk)>>, Usage(6, 1))

\* responses to a run started by the caller
TopTemplates ==
    {EndTurnOne, EndTurnTwo, EndTurnNone, UseGeneric, UseBadArgs, UseAnalyst,
     UseGrowthBadCtx, UseGrowth, UseAnalystNoTask, UseGhostApproval, UseGhostNoTask,
     StopMaxTokens}

\* responses to the runs of a session of several runs
SessionTemplates == {EndTurnOne, UseGeneric, StopMaxTokens}

\* the Manager is asked to call itself
UseManager ==
    Response("tool_use", <<ToolUse(0, CallTool(ManagerId), TaskOnly)>>, Usage(5, 4))

\* the Manager and the analyst are run once with every response, the
\* Manager also with the call of itself; the other specialists are run
\* several times in a row
TopTemplatesOf(agent) ==
    IF agent = ManagerId THEN TopTemplates \cup {UseManager}
    ELSE IF agent = "analyst" THEN TopTemplates
    ELSE SessionTemplates

\* responses to a specialist run started by the Manager
NestedTemplates == {EndTurnOne, UseCallOnly}

\* the analyst started by the Manager may go on calling tools up to its own
\* limit of iterations, the other specialists answer at once
NestedTemplatesOf(agent) == IF agent = "analyst" THEN NestedTemplates ELSE {EndTurnOne}

\* the k-th block of the n-th response of a run gets the call id <<n, k>>
WithIds(n, r) ==
    [r EXCEPT !.content =
        [k \in 1..Len(r.content) |->
            IF r.content[k].type = "tool_use"
            THEN [r.content[k] EXCEPT !.id = <<n, k>>]
            ELSE r.content[k]]]

\* the blocks of a response that make the Manager start a specialist run
Delegating(content) ==
    SelectSeq(content,
              LAMBDA b : /\ b.type = "tool_use"
                         /\ IsSpecialistCall(b.name)
                         /\ CallSpecialistAgent(ExtractAgentId(b.name),
                                                Get(b.input, "task"),
                                                Get(b.input, "context")).kind = "run")

\* the wall-clock readings of datetime.utcnow() - start_time: two for a run
\* of the caller, one for a specialist run started by the Manager
ElapsedValues(depth) == IF depth = 1 THEN {0, 1} ELSE {0}

(***************************************************************************)
(* State machine.                                                          *)
(***************************************************************************)
Depth == Len(frames)
Top == frames[Depth]
SetTop(f) == [frames EXCEPT ![Depth] = f]

\* the trace of what the runs did: an entry per model call, per start and
\* end of the handling of a tool_use block, and per call made in between
Event(op, depth, arg) == [op |-> op, depth |-> depth, arg |-> arg]
Stamp(calls, depth) == [k \in 1..Len(calls) |-> Event(calls[k].op, depth, calls[k].arg)]

\* the agents the caller runs with the context it passes, and its tasks
CallerRuns ==
    {[agent |-> ManagerId, context |-> PyDict(<< <<"p", "x">> >>)],
     [agent |-> "analyst", context |-> PyDict(<< <<"p", "x">> >>)],
     [agent |-> "analyst", context |-> PyNone]}
CallerTasks == {PyStr("T")}

\* responses the model may give to the next call of frame f
ModelResponses(f) ==
    { WithIds(f.calls + 1, r) :
      r \in { t \in (IF Depth = 1 THEN TopTemplatesOf(f.agent)
                     ELSE NestedTemplatesOf(f.agent)) :
              ~IsManager(f.agent)
              \/ f.delegations + Len(Delegating(t.content)) <= MaxDelegations } }

\* AgentBase.__init__ of the agents as the Manager and the API build them:
\* the model and max_tokens of the settings, the temperature 0.7 in tenths
NewAgent(a) ==
    [agent_id |-> a, model |-> "claude-sonnet-4-5", temperature |-> 7, max_tokens |-> 4096]

\* nothing has been asked of the token manager
NoCall == [op |-> "none"]

\* the agents are constructed, nothing runs, and _token_manager,
\* _model_router and _prompt_cache are None
Init ==
    /\ frames = <<>>
    /\ conversation_history = [a \in AgentIds |-> <<>>]
    /\ agents = [a \in AgentIds |-> NewAgent(a)]
    /\ suspended = <<>>
    /\ environment \in {"development", "production"}
    /\ events = <<>>
    /\ token_manager = PyNone
    /\ today = 1
    /\ last = NoCall
    /\ model_router = PyNone
    /\ first_route = NoCall
    /\ prompt_cache = PyNone

\* the caller invokes agent.run(task, context, max_iterations)
StartRun(a, task, context, mi) ==
    /\ frames = <<>>
    /\ frames' = <<EnterRun(a, task, context, mi)>>
    /\ UNCHANGED <<conversation_history, environment, agents, suspended, events>>
    /\ UNCHANGED serviceVars

\* the loop head keeping only the latest response of the agent
CallModelKeepLast ==
    /\ Depth >= 1
    /\ Top.pc = "loop"
    /\ LoopCondition(Top)
    /\ \E response \in ModelResponses(Top), elapsed \in ElapsedValues(Depth) :
          /\ response.stop_reason # "end_turn" => elapsed = 0
          /\ frames' = SetTop(HandleResponse(Top, response, elapsed))
          /\ conversation_history' =
                [conversation_history EXCEPT ![Top.agent] = <<HistoryEntry(response)>>]
    /\ events' = Append(events, Event("model", Depth, Top.calls + 1))
    /\ UNCHANGED <<environment, agents, suspended>>
    /\ UNCHANGED serviceVars

\* the model call of a run that honours the verdict of should_allow_call:
\* it is not made after the token manager refused a call
CallModelGated ==
    /\ Depth >= 1
    /\ Top.pc = "loop"
    /\ LoopCondition(Top)
    /\ last.op = "should_allow_call" => (last.result.raised \/ last.result.value.allow)
    /\ \E response \in ModelResponses(Top), elapsed \in ElapsedValues(Depth) :
          /\ response.stop_reason # "end_turn" => elapsed = 0
          /\ frames' = SetTop(HandleResponse(Top, response, elapsed))
          /\ conversation_history' =
                [conversation_history EXCEPT ![Top.agent] = Append(@, HistoryEntry(response))]
    /\ events' = Append(events, Event("model", Depth, Top.calls + 1))
    /\ UNCHANGED <<environment, agents, suspended>>
    /\ UNCHANGED serviceVars

\* one pass of the loop head: the model call returns a response, it is
\* stored in conversation_history and run branches on its stop reason
CallModel ==
    /\ Depth >= 1
    /\ Top.pc = "loop"
    /\ LoopCondition(Top)
    /\ \E response \in ModelResponses(Top), elapsed \in ElapsedValues(Depth) :
          /\ response.stop_reason # "end_turn" => elapsed = 0
          /\ frames' = SetTop(HandleResponse(Top, response, elapsed))
          /\ conversation_history' =
                [conversation_history EXCEPT ![Top.agent] = Append(@, HistoryEntry(response))]
    /\ events' = Append(events, Event("model", Depth, Top.calls + 1))
    /\ UNCHANGED <<environment, agents, suspended>>
    /\ UNCHANGED serviceVars

\* the model call raises: the except clause of run returns the failure
CallModelRaises ==
    /\ Depth >= 1
    /\ Top.pc = "loop"
    /\ LoopCondition(Top)
    /\ frames' = SetTop(RunExcept([Top EXCEPT !.iteration = @ + 1, !.calls = @ + 1],
                                  ApiErrorMsg))
    /\ events' = Append(events, Event("model", Depth, Top.calls + 1))
    /\ UNCHANGED <<conversation_history, environment, agents, suspended>>
    /\ UNCHANGED serviceVars

\* the while condition is false: run falls through to the max-iterations return
LoopExit ==
    /\ Depth >= 1
    /\ Top.pc = "loop"
    /\ ~LoopCondition(Top)
    /\ frames' = SetTop([Top EXCEPT !.pc = "returned", !.exit = "fallthrough",
                                    !.result = ReturnMaxIterations(Top)])
    /\ UNCHANGED <<conversation_history, environment, agents, suspended, events>>
    /\ UNCHANGED serviceVars

\* one pass of the for loop of _handle_tool_use over a block that does not
\* start a specialist run: a text block is skipped, a tool_use block is
\* executed and its result appended, or its exception ends the run
DispatchBlock ==
    /\ Depth >= 1
    /\ Top.pc = "dispatch"
    /\ Top.bi <= Len(Top.response.content)
    /\ LET block == Top.response.content[Top.bi]
       IN  IF block.type # "tool_use"
           THEN /\ frames' = SetTop([Top EXCEPT !.bi = @ + 1])
                /\ UNCHANGED events
           ELSE \E o \in Dispatch(Top.agent, block, environment) :
                   /\ o.kind # "run"
                   /\ frames' = SetTop(IF o.kind = "raise"
                                       THEN RunExcept(Top, o.error)
                                       ELSE AppendResult(Top, block, o.value))
                   /\ events' = events \o <<Event("block_start", Depth, block.id)>>
                                       \o Stamp(o.calls, Depth)
                                       \o (IF o.kind = "raise" THEN <<>>
                                           ELSE <<Event("block_end", Depth, block.id)>>)
    /\ UNCHANGED <<conversation_history, environment, agents, suspended>>
    /\ UNCHANGED serviceVars

\* the Manager's dispatch passing its own max_iterations on to the specialist
DelegateInheritLimit ==
    /\ Depth >= 1
    /\ Top.pc = "dispatch"
    /\ Top.bi <= Len(Top.response.content)
    /\ LET block == Top.response.content[Top.bi]
       IN  /\ block.type = "tool_use"
           /\ \E o \in Dispatch(Top.agent, block, environment) :
                 /\ o.kind = "run"
                 /\ frames' = Append(SetTop([Top EXCEPT !.pc = "await",
                                                        !.delegations = @ + 1]),
                                     EnterRun(o.agent, o.task, o.context,
                                              Top.max_iterations))
                 /\ events' = events \o <<Event("block_start", Depth, block.id)>>
                                     \o Stamp(o.calls, Depth)
    /\ UNCHANGED <<conversation_history, environment, agents, suspended>>
    /\ UNCHANGED serviceVars

\* the Manager's dispatch awaits agent.run(task=task, context=context) of a
\* registered specialist
Delegate ==
    /\ Depth >= 1
    /\ Top.pc = "dispatch"
    /\ Top.bi <= Len(Top.response.content)
    /\ LET block == Top.response.content[Top.bi]
       IN  /\ block.type = "tool_use"
           /\ \E o \in Dispatch(Top.agent, block, environment) :
                 /\ o.kind = "run"
                 /\ frames' = Append(SetTop([Top EXCEPT !.pc = "await",
                                                        !.delegations = @ + 1]),
                                     EnterRun(o.agent, o.task, o.context,
                                              DefaultMaxIterations))
                 /\ events' = events \o <<Event("block_start", Depth, block.id)>>
                                     \o Stamp(o.calls, Depth)
    /\ UNCHANGED <<conversation_history, environment, agents, suspended>>
    /\ UNCHANGED serviceVars

\* the return of a specialist run whose pass counter is the Manager's own
\* variable: the Manager goes on from the specialist's count
ReturnToManagerSharedCounter ==
    /\ Depth >= 2
    /\ Top.pc \in {"returned", "raised"}
    /\ LET parent == frames[Depth - 1]
           block == parent.response.content[parent.bi]
           value == IF Top.pc = "returned" THEN Top.result
                    ELSE SpecialistFailed(Top.agent, Top.raised)
       IN  /\ frames' = [SubSeq(frames, 1, Depth - 1) EXCEPT ![Depth - 1] =
                           AppendResult([parent EXCEPT !.pc = "dispatch",
                                                       !.iteration = Top.iteration],
                                        block, value)]
           /\ events' = Append(events, Event("block_end", Depth - 1, block.id))
    /\ UNCHANGED <<conversation_history, environment, agents, suspended>>
    /\ UNCHANGED serviceVars

\* the specialist's run is over: _call_specialist_agent returns its RunResult,
\* or the failure built by its except clause, and the Manager appends it
ReturnToManager ==
    /\ Depth >= 2
    /\ Top.pc \in {"returned", "raised"}
    /\ LET parent == frames[Depth - 1]
           block == parent.response.content[parent.bi]
           value == IF Top.pc = "returned" THEN Top.result
                    ELSE SpecialistFailed(Top.agent, Top.raised)
       IN  /\ frames' = [SubSeq(frames, 1, Depth - 1) EXCEPT ![Depth - 1] =
                           AppendResult([parent EXCEPT !.pc = "dispatch"], block, value)]
           /\ events' = Append(events, Event("block_end", Depth - 1, block.id))
    /\ UNCHANGED <<conversation_history, environment, agents, suspended>>
    /\ UNCHANGED serviceVars

\* the return to the loop without waiting for the blocks that are left
FinishDispatchEarly ==
    /\ Depth >= 1
    /\ Top.pc = "dispatch"
    /\ frames' = SetTop(AppendTurns(Top))
    /\ UNCHANGED <<conversation_history, environment, agents, suspended, events>>
    /\ UNCHANGED serviceVars

\* _handle_tool_use returned: the assistant turn and the batched tool
\* results are appended to messages
FinishDispatch ==
    /\ Depth >= 1
    /\ Top.pc = "dispatch"
    /\ Top.bi > Len(Top.response.content)
    /\ frames' = SetTop(AppendTurns(Top))
    /\ UNCHANGED <<conversation_history, environment, agents, suspended, events>>
    /\ UNCHANGED serviceVars

Next ==
    \/ \E r \in CallerRuns, task \in CallerTasks, mi \in 1..MaxIter :
          StartRun(r.agent, task, r.context, mi)
    \/ CallModel
    \/ CallModelRaises
    \/ LoopExit
    \/ DispatchBlock
    \/ Delegate
    \/ ReturnToManager
    \/ FinishDispatch

Spec == Init /\ [][Next]_vars

\* every step of a run that is enabled is eventually taken: the model call,
\* each tool execution and each specialist run return
FairSpec == Spec /\ WF_vars(Next)

(***************************************************************************)
(* A session: the caller runs an agent several times and resets its        *)
(* conversation.                                                           *)
(***************************************************************************)
\* most entries of a conversation_history
MaxHistory == 3

\* the agents that the caller runs in a session, with the context it passes
SessionRuns ==
    {[agent |-> "system_builder", context |-> PyNone],
     [agent |-> "sales_machine", context |-> PyDict(<< <<"p", "x">> >>)]}

\* entries of the histories of the agents of the session
SessionEntries ==
    Len(conversation_history["system_builder"]) + Len(conversation_history["sales_machine"])

\* run returned or raised to the caller, which may run an agent again
RunReturns ==
    /\ Depth = 1
    /\ Top.pc \in {"returned", "raised"}
    /\ frames' = <<>>
    /\ events' = <<>>
    /\ UNCHANGED <<conversation_history, environment, agents, suspended>>
    /\ UNCHANGED serviceVars

\* AgentBase.reset_conversation of an agent that has a history
ResetConversation(a) ==
    /\ conversation_history[a] # <<>>
    /\ conversation_history' = [conversation_history EXCEPT ![a] = <<>>]
    /\ UNCHANGED <<frames, environment, events, agents, suspended>>
    /\ UNCHANGED serviceVars

SessionNext ==
    \/ \E r \in SessionRuns, task \in CallerTasks, mi \in 1..MaxIter :
          /\ SessionEntries + mi <= MaxHistory
          /\ StartRun(r.agent, task, r.context, mi)
    \/ CallModel
    \/ CallModelRaises
    \/ LoopExit
    \/ DispatchBlock
    \/ FinishDispatch
    \/ RunReturns
    \/ \E r \in SessionRuns : ResetConversation(r.agent)

\* the process starts: as Init, in the one environment it is deployed to
SessionInit == Init /\ environment = "development"

SessionSpec == SessionInit /\ [][SessionNext]_vars

TypeOK ==
    /\ Depth <= 2
    /\ \A i \in 1..Depth :
          /\ frames[i].agent \in AgentIds
          /\ frames[i].pc \in {"loop", "dispatch", "await", "returned", "raised"}
          /\ frames[i].iteration \in 0..DefaultMaxIterations
    /\ environment \in {"development", "production"}

(***************************************************************************)
(* Vocabulary of the properties.                                           *)
(***************************************************************************)
Returned(f) == f.pc = "returned"

\* the run returned from the end_turn branch
EndedViaEndTurn(f) == Returned(f) /\ f.response.stop_reason = "end_turn"

\* the block the dispatch of f stands at, when it stands at one
AtBlock(f) ==
    /\ f.response.stop_reason = "tool_use"
    /\ f.bi \in 1..Len(f.response.content)
    /\ f.response.content[f.bi].type = "tool_use"

\* the run ended in its except clause while dispatching the block at bi
RaisedInDispatch(f) == Returned(f) /\ f.exit = "except" /\ f.calls >= 1 /\ AtBlock(f)

IsRegisteredSpecialistCall(block) ==
    /\ block.type = "tool_use"
    /\ IsSpecialistCall(block.name)
    /\ ExtractAgentId(block.name) \in SpecialistIds

ResultIds(results) == [k \in 1..Len(results) |-> results[k].tool_use_id]
BlockIds(content) ==
    LET tu == ToolUseBlocks(content) IN [k \in 1..Len(tu) |-> tu[k].id]

\* the parts put one after the other with nothing in between
RECURSIVE Concatenation(_)
Concatenation(parts) ==
    IF parts = <<>> THEN "" ELSE Concatenation(SubSeq(parts, 1, Len(parts) - 1)) \o parts[Len(parts)]

\* the parts put one after the other with a newline between two neighbours
RECURSIVE NewlineSeparated(_)
NewlineSeparated(parts) ==
    IF parts = <<>> THEN ""
    ELSE IF Len(parts) = 1 THEN parts[1]
    ELSE NewlineSeparated(SubSeq(parts, 1, Len(parts) - 1)) \o "\n" \o parts[Len(parts)]

(***************************************************************************)
(* Properties of the orchestration loop.                                   *)
(***************************************************************************)

\* C1: run never raises to its caller: no run is ever in the raised
\* position, every run that is over holds a RunResult with a boolean
\* success, and a run that did not return from the end_turn branch holds
\* success = false.
C1_RunNeverRaises ==
    \A i \in 1..Depth :
        /\ frames[i].pc # "raised"
        /\ Returned(frames[i]) =>
              /\ "success" \in DOMAIN frames[i].result
              /\ frames[i].result.success \in BOOLEAN
              /\ "agent_id" \in DOMAIN frames[i].result
              /\ ~EndedViaEndTurn(frames[i]) => frames[i].result.success = FALSE

\* a caller's run was ended by the TypeError of a tool's execute
C1_Witness ==
    /\ Depth = 1
    /\ RaisedInDispatch(frames[1])
    /\ frames[1].result.error = TypeErrorMsg

\* C2: every run terminates and issues at most max_iterations model calls,
\* whatever stop reasons the model returns, when every model call, tool
\* execution and specialist run returns.
C2_RunTerminatesBounded ==
    /\ [](\A i \in 1..Depth : frames[i].calls <= frames[i].max_iterations)
    /\ (Depth >= 1) ~> (Depth = 1 /\ Returned(frames[1]))
    /\ (Depth = 2) ~> (Depth = 1)

\* a run used its whole budget of model calls and returned
C2_Witness ==
    /\ Depth = 1
    /\ Returned(frames[1])
    /\ frames[1].max_iterations >= 2
    /\ frames[1].calls = frames[1].max_iterations

\* C3 as stated: a run whose first response is end_turn returns success,
\* iterations = 1 and the plain concatenation of the response's text blocks.
C3_Original ==
    \A i \in 1..Depth :
        (EndedViaEndTurn(frames[i]) /\ frames[i].calls = 1) =>
            /\ frames[i].result.success = TRUE
            /\ frames[i].result.iterations = 1
            /\ frames[i].result.result = Concatenation(TextParts(frames[i].response.content))

\* C3 amended: a run whose first response is end_turn returns success,
\* iterations = 1 and the response's text blocks, in order, separated by one
\* newline; blocks that are not text contribute nothing.
C3_FirstEndTurn ==
    \A i \in 1..Depth :
        (EndedViaEndTurn(frames[i]) /\ frames[i].calls = 1) =>
            /\ frames[i].result.success = TRUE
            /\ frames[i].result.iterations = 1
            /\ frames[i].result.result = NewlineSeparated(TextParts(frames[i].response.content))

\* a first response of two text blocks around a block that is not text ended the run
C3_Witness ==
    /\ Depth = 1
    /\ EndedViaEndTurn(frames[1])
    /\ frames[1].calls = 1
    /\ Len(TextParts(frames[1].response.content)) = 2
    /\ Len(frames[1].response.content) = 3

\* C4: a run in which max_iterations consecutive model calls returned
\* tool_use and no dispatch raised fails with "Max iterations reached" and
\* iterations = max_iterations, after exactly max_iterations model calls.
C4_MaxIterations ==
    \A i \in 1..Depth :
        Len(frames[i].messages) = 1 + 2 * frames[i].max_iterations =>
            /\ frames[i].calls = frames[i].max_iterations
            /\ frames[i].pc \in {"loop", "returned"}
            /\ Returned(frames[i]) =>
                  frames[i].result = [success |-> FALSE,
                                      error |-> "Max iterations reached",
                                      agent_id |-> frames[i].agent,
                                      iterations |-> frames[i].max_iterations]

\* a run of at least two iterations, all of them tool_use, returned
C4_Witness ==
    /\ Depth = 1
    /\ Returned(frames[1])
    /\ frames[1].max_iterations >= 2
    /\ Len(frames[1].messages) = 1 + 2 * frames[1].max_iterations

\* C5: the dispatch produces one tool result per tool-invocation block, in
\* the order of the blocks and each with the call id of its own block, for
\* the base dispatch and for the Manager's; the results are appended as one
\* user turn directly after the assistant turn, before the next model call.
C5_ResultsInOrder ==
    \A i \in 1..Depth :
        LET f == frames[i] IN
        /\ f.pc \in {"dispatch", "await"} =>
              /\ ResultIds(f.tool_results) =
                    BlockIds(SubSeq(f.response.content, 1, f.bi - 1))
              /\ \A k \in 1..Len(f.tool_results) : f.tool_results[k].type = "tool_result"
        /\ \A k \in 1..((Len(f.messages) - 1) \div 2) :
              /\ f.messages[2 * k].role = "assistant"
              /\ f.messages[2 * k + 1].role = "user"
              /\ ResultIds(f.messages[2 * k + 1].content) = BlockIds(f.messages[2 * k].content)
        /\ (f.pc = "loop" /\ f.calls >= 1) =>
              /\ Len(f.messages) = 2 * f.calls + 1
              /\ f.messages[2 * f.calls].content = f.response.content
              /\ f.messages[2 * f.calls + 1].content = f.tool_results
              /\ Len(f.tool_results) = Len(ToolUseBlocks(f.response.content))

\* the Manager fed back the results of a specialist call and of a generic tool
C5_Witness ==
    /\ Depth = 1
    /\ frames[1].pc = "loop"
    /\ frames[1].calls >= 1
    /\ Len(frames[1].tool_results) = 2
    /\ frames[1].tool_results[1].tool_use_id # frames[1].tool_results[2].tool_use_id
    /\ IsManager(frames[1].agent)
    /\ IsRegisteredSpecialistCall(ToolUseBlocks(frames[1].response.content)[1])
    /\ ToolUseBlocks(frames[1].response.content)[2].name \in RegisteredTools

\* C6: a response whose stop reason is neither end_turn nor tool_use ends
\* the run at once: the run holds the "Max iterations reached" failure with
\* iterations = the model calls made so far, the response is not appended
\* to the messages, and from then on the run takes no step of its own (no
\* tool is executed, no model call is issued).
C6_UnexpectedStop ==
    /\ [](\A i \in 1..Depth :
            frames[i].response.stop_reason \notin {"none", "end_turn", "tool_use"} =>
                /\ Returned(frames[i])
                /\ frames[i].result = [success |-> FALSE,
                                       error |-> "Max iterations reached",
                                       agent_id |-> frames[i].agent,
                                       iterations |-> frames[i].calls]
                /\ Len(frames[i].messages) = 2 * frames[i].calls - 1)
    /\ [][\A i \in 1..Depth :
            frames[i].response.stop_reason \notin {"none", "end_turn", "tool_use"} =>
                (Len(frames') >= i => frames'[i] = frames[i])]_vars

\* an unexpected stop reason ended a run before its budget was used
C6_Witness ==
    /\ Depth = 1
    /\ frames[1].response.stop_reason = "max_tokens"
    /\ Returned(frames[1])
    /\ frames[1].calls < frames[1].max_iterations
    /\ ToolUseBlocks(frames[1].response.content) # <<>>

\* C7 as stated: a failure of a registered tool's own operation, bad
\* arguments included, never ends the run: no run returns from its except
\* clause while its dispatch stands at a block of a registered tool.
C7_Original ==
    \A i \in 1..Depth :
        ~(/\ RaisedInDispatch(frames[i])
          /\ frames[i].response.content[frames[i].bi].name \in RegisteredTools)

\* C8 as stated: a delegation to a registered specialist that does not
\* succeed, whatever input the block carries, gives a failed tool result
\* with agent_id and error, and the Manager's run does not fail at that block.
C8_Original ==
    \A i \in 1..Depth :
        LET f == frames[i] IN
        IsManager(f.agent) =>
            /\ f.pc \in {"dispatch", "await"} =>
                  \A k \in 1..Len(f.tool_results) :
                      LET block == ToolUseBlocks(f.response.content)[k]
                          r == f.tool_results[k].content.of
                      IN  IsRegisteredSpecialistCall(block) =>
                              /\ "success" \in DOMAIN r
                              /\ r.success = FALSE =>
                                    /\ "error" \in DOMAIN r
                                    /\ "agent_id" \in DOMAIN r
                                    /\ r.agent_id = ExtractAgentId(block.name)
            /\ ~(/\ RaisedInDispatch(f)
                 /\ IsRegisteredSpecialistCall(f.response.content[f.bi]))

\* the exception that ended run, by the place where run stood
RaisedMessages(f, env) ==
    IF f.calls = 0 THEN {AttributeErrorMsg}
    ELSE IF AtBlock(f)
    THEN { o.error : o \in { d \in Dispatch(f.agent, f.response.content[f.bi], env) :
                             d.kind = "raise" } }
    ELSE {ApiErrorMsg}

\* C9: an exception raised while building the first message, calling the
\* model or dispatching tools makes the run return {success: false, error:
\* the exception's message, agent_id}; the tool results gathered for the
\* response are not appended to the messages, and from then on the run
\* takes no step of its own (no model call, no tool).
C9_ExceptionFailsRun ==
    /\ [](\A i \in 1..Depth :
            frames[i].exit = "except" =>
                /\ Returned(frames[i])
                /\ \E msg \in RaisedMessages(frames[i], environment) :
                      frames[i].result = [success |-> FALSE, error |-> msg,
                                          agent_id |-> frames[i].agent]
                /\ Len(frames[i].messages) =
                      (IF frames[i].calls = 0 THEN 0 ELSE 2 * frames[i].calls - 1))
    /\ [][\A i \in 1..Depth :
            frames[i].exit = "except" =>
                (Len(frames') >= i => frames'[i] = frames[i])]_vars

\* a dispatch raised after it had gathered a tool result
C9_Witness ==
    /\ Depth = 1
    /\ RaisedInDispatch(frames[1])
    /\ frames[1].tool_results # <<>>
    /\ frames[1].bi < Len(frames[1].response.content)

\* C10: every RunResult holds exactly one of result and error: result iff
\* success is true, error iff success is false, on every exit of run.
C10_ResultXorError ==
    \A i \in 1..Depth :
        Returned(frames[i]) =>
            /\ frames[i].exit \in {"end_turn", "fallthrough", "except"}
            /\ ("result" \in DOMAIN frames[i].result) <=> (frames[i].result.success = TRUE)
            /\ ("error" \in DOMAIN frames[i].result) <=> (frames[i].result.success = FALSE)
            /\ ("result" \in DOMAIN frames[i].result) # ("error" \in DOMAIN frames[i].result)

\* a run returned from the fall-through after an unexpected stop reason
C10_Witness ==
    /\ Depth = 1
    /\ Returned(frames[1])
    /\ frames[1].exit = "fallthrough"
    /\ frames[1].response.stop_reason = "max_tokens"
    /\ frames[1].calls >= 2

\* C11 as stated: every RunResult carries an iterations field equal to the
\* number of model calls of the run, on every exit, the exit through the
\* except clause included.
C11_Original ==
    \A i \in 1..Depth :
        Returned(frames[i]) =>
            /\ "iterations" \in DOMAIN frames[i].result
            /\ frames[i].result.iterations = frames[i].calls

(***************************************************************************)
(* Vocabulary of the properties of the dispatch.                           *)
(***************************************************************************)
\* the block of run f that carries the call id <<n, k>>
BlockOf(f, id) ==
    IF id[1] = f.calls /\ f.response.stop_reason # "none" /\ id[2] <= Len(f.response.content)
       /\ f.response.content[id[2]].type = "tool_use" /\ f.response.content[id[2]].id = id
    THEN f.response.content[id[2]]
    ELSE f.messages[2 * id[1]].content[id[2]]

\* the positions after p at which the run of events[p] goes on to something
\* else: the end of the block, another block, or a model call
StopsAfter(p) ==
    { q \in (p + 1)..Len(events) :
        /\ events[q].depth = events[p].depth
        /\ events[q].op \in {"block_start", "block_end", "model"} }

StopAfter(p) ==
    IF StopsAfter(p) = {} THEN Len(events) + 1
    ELSE CHOOSE q \in StopsAfter(p) : \A r \in StopsAfter(p) : q <= r

\* the calls made by the handling of the block that starts at position p
DirectCalls(p) ==
    SelectSeq(SubSeq(events, p + 1, StopAfter(p) - 1),
              LAMBDA e : e.depth = events[p].depth)

\* the handling of the block that starts at position p has returned
BlockReturned(p) ==
    /\ StopAfter(p) <= Len(events)
    /\ events[StopAfter(p)] = Event("block_end", events[p].depth, events[p].arg)

\* the tool results that run f holds for the call id, in the list being
\* built or in the user turns appended to its messages
ResultsFor(f, id) ==
    { f.tool_results[k].content : k \in { j \in 1..Len(f.tool_results) :
                                            f.tool_results[j].tool_use_id = id } }
    \cup UNION { { f.messages[2 * n + 1].content[k].content :
                    k \in { j \in 1..Len(f.messages[2 * n + 1].content) :
                              f.messages[2 * n + 1].content[j].tool_use_id = id } } :
                  n \in 1..((Len(f.messages) - 1) \div 2) }

BlockStarts == { p \in 1..Len(events) : events[p].op = "block_start" }

\* a block of the Manager that names a registered specialist and carries a task
IsDelegation(block) ==
    /\ IsRegisteredSpecialistCall(block)
    /\ Get(block.input, "task").t = "str"

(***************************************************************************)
(* Properties of the Manager's delegation and of the tool registry.        *)
(***************************************************************************)

\* while a specialist runs, it is the one the block names, run with the
\* block's task and context, and the Manager waits at that block
C12_WhileSpecialistRuns ==
    Depth = 2 =>
        LET parent == frames[1]
            block == parent.response.content[parent.bi]
        IN  /\ parent.agent = "manager"
            /\ parent.pc = "await"
            /\ IsDelegation(block)
            /\ frames[2].agent = block.name[2]
            /\ frames[2].task = block.input.task
            /\ frames[2].context = Get(block.input, "context")
            /\ frames[2].max_iterations = 10
            /\ Len(parent.tool_results) =
                  Len(ToolUseBlocks(SubSeq(parent.response.content, 1, parent.bi - 1)))

\* the one call made for such a block is the specialist's run
C12_OneRunNoRegistry ==
    \A p \in BlockStarts :
        (events[p].depth = 1 /\ frames[1].agent = "manager") =>
            LET block == BlockOf(frames[1], events[p].arg)
            IN  IsDelegation(block) =>
                    /\ DirectCalls(p) =
                          <<Event("run", 1, <<block.name[2], block.input.task,
                                              Get(block.input, "context")>>)>>
                    /\ BlockReturned(p) <=> ResultsFor(frames[1], block.id) # {}
                    /\ ~BlockReturned(p) => Depth = 2

\* when the specialist's run is over its RunResult becomes the block's result
C12_RunResultFedBack ==
    (Depth = 2 /\ Len(frames') = 1) =>
        LET parent == frames[1]
            block == parent.response.content[parent.bi]
        IN  /\ frames[2].pc = "returned"
            /\ frames'[1].tool_results =
                  Append(parent.tool_results,
                         [type |-> "tool_result", tool_use_id |-> block.id,
                          content |-> [enc |-> "json", of |-> frames[2].result]])
            /\ frames'[1].bi = parent.bi + 1
            /\ frames'[1].pc = "dispatch"

\* C12: in the Manager's dispatch a block call_<id>_agent with a registered
\* id and a task starts the run of exactly that specialist, once, with the
\* block's task and context; the Manager waits at that block until the run
\* is over and then appends the run's RunResult, serialized as JSON, as the
\* block's tool result; the tool registry is not called for the block.
C12_Delegation ==
    /\ [](C12_WhileSpecialistRuns /\ C12_OneRunNoRegistry)
    /\ [][C12_RunResultFedBack]_vars

\* the Manager holds the analyst's successful RunResult as the result of its
\* call_analyst_agent block and has gone on to the next block
C12_Witness ==
    /\ Depth = 1
    /\ frames[1].agent = "manager"
    /\ frames[1].pc = "dispatch"
    /\ Len(frames[1].tool_results) = 1
    /\ frames[1].tool_results[1].content.of =
          [success |-> TRUE, agent_id |-> "analyst", result |-> "A", iterations |-> 1,
           elapsed_seconds |-> 0, usage |-> [input_tokens |-> 1, output_tokens |-> 1]]
    /\ IsDelegation(frames[1].response.content[1])

\* a block named call_<id>_agent whose id is not a registered specialist
IsUnknownSpecialistCall(block) ==
    /\ block.type = "tool_use"
    /\ Len(block.name) = 3
    /\ block.name[1] = "call_"
    /\ block.name[3] = "_agent"
    /\ block.name[2] \notin SpecialistIds

\* C13 as stated: in the Manager's dispatch every block call_<id>_agent with
\* an unregistered id returns, without a call to a specialist's run or to
\* the tool registry, and leaves the failed tool result that names the
\* unknown specialist; the dispatch does not raise at the block.
C13_Original ==
    \A p \in BlockStarts :
        (events[p].depth = 1 /\ frames[1].agent = "manager") =>
            LET block == BlockOf(frames[1], events[p].arg)
            IN  IsUnknownSpecialistCall(block) =>
                    /\ BlockReturned(p)
                    /\ DirectCalls(p) = <<>>
                    /\ ResultsFor(frames[1], block.id) =
                          { [enc |-> "json",
                             of |-> [success |-> FALSE,
                                     error |-> "Unknown specialist agent: " \o block.name[2]]] }

\* the first response of run f invoked call_growth_hacker_agent and the
\* specialist's result was fed back to the model as a tool-result turn
GrowthHackerFedBack(f) ==
    /\ Len(f.messages) >= 3
    /\ \E k \in 1..Len(f.messages[2].content) :
          /\ f.messages[2].content[k].type = "tool_use"
          /\ f.messages[2].content[k].name = <<"call_", "growth_hacker", "_agent">>
          /\ \E j \in 1..Len(f.messages[3].content) :
                /\ f.messages[3].content[j].tool_use_id = f.messages[2].content[k].id
                /\ f.messages[3].content[j].content.of.agent_id = "growth_hacker"

\* C14: when the Manager's first response is tool_use invoking
\* call_growth_hacker_agent and its second response, given after the
\* specialist's result was fed back, is end_turn, the Manager's RunResult has
\* success = true, iterations = 2 whatever number of model calls the
\* specialist made, and as result the text blocks of the second response only.
C14_ManagerScenario ==
    (/\ Depth >= 1
     /\ frames[1].agent = "manager"
     /\ GrowthHackerFedBack(frames[1])
     /\ frames[1].calls = 2
     /\ frames[1].response.stop_reason = "end_turn") =>
        /\ Depth = 1
        /\ frames[1].pc = "returned"
        /\ frames[1].result.success = TRUE
        /\ frames[1].result.iterations = 2
        /\ frames[1].result.result = NewlineSeparated(TextParts(frames[1].response.content))
        /\ conversation_history["manager"][2].content = frames[1].response.content

\* the scenario happened with a first response that carried a text block of
\* its own and a specialist that made a model call of its own
C14_Witness ==
    /\ Depth = 1
    /\ frames[1].agent = "manager"
    /\ GrowthHackerFedBack(frames[1])
    /\ frames[1].calls = 2
    /\ frames[1].pc = "returned"
    /\ frames[1].response.stop_reason = "end_turn"
    /\ frames[1].result.result = "A\nB"
    /\ TextParts(frames[1].messages[2].content) = <<"C">>
    /\ \E p \in 1..Len(events) : events[p].op = "model" /\ events[p].depth = 2

\* the events that a step adds to the trace
NewEvents == SubSeq(events', Len(events) + 1, Len(events'))

\* a step in which execute_tool is called
C15_ExecuteToolStep ==
    (Len(NewEvents) >= 2 /\ NewEvents[2].op = "execute_tool") =>
        LET f == frames[Depth]
            g == frames'[Depth]
            block == f.response.content[f.bi]
            name == NewEvents[2].arg
            executes == SelectSeq(NewEvents, LAMBDA e : e.op = "execute")
            enc == IF f.agent = "manager" THEN "json" ELSE "str"
        IN  /\ name = block.name
            /\ NewEvents[1] = Event("block_start", Depth, block.id)
            /\ name \notin {<<"web_search">>, <<"extract_data_from_url">>, <<"store_context">>} =>
                  /\ executes = <<>>
                  /\ NewEvents[Len(NewEvents)] = Event("block_end", Depth, block.id)
                  /\ g.pc = "dispatch"
                  /\ g.tool_results =
                        Append(f.tool_results,
                               [type |-> "tool_result", tool_use_id |-> block.id,
                                content |-> [enc |-> enc,
                                             of |-> [success |-> FALSE,
                                                     error |-> "Tool '" \o JoinTokens(name)
                                                               \o "' not found"]]])
            /\ name \in {<<"web_search">>, <<"extract_data_from_url">>, <<"store_context">>} =>
                  /\ executes = <<Event("execute", Depth, name)>>
                  /\ g.pc = "dispatch" =>
                        /\ Len(g.tool_results) = Len(f.tool_results) + 1
                        /\ g.tool_results[Len(g.tool_results)].tool_use_id = block.id
                        /\ g.tool_results[Len(g.tool_results)].content.enc = enc
                        /\ g.tool_results[Len(g.tool_results)].content.of
                              \in ToolOutcomes(name, block.input)

\* C15: execute_tool with a name that is not registered returns the failure
\* result "Tool '<name>' not found" without raising and without invoking the
\* execute of any tool; with a registered name it invokes the execute of
\* exactly that tool, once, and what execute returns is the result of
\* execute_tool.
C15_ExecuteTool == [][C15_ExecuteToolStep]_vars

\* a run got the results of a registered tool and of a name that is not
\* registered, and went on to its next model call
C15_Witness ==
    /\ Depth = 1
    /\ frames[1].pc = "loop"
    /\ Len(frames[1].tool_results) = 2
    /\ frames[1].tool_results[1].content.of =
          [success |-> TRUE, query |-> PyStr("q"), source |-> "brave"]
    /\ frames[1].tool_results[2].content.of =
          [success |-> FALSE, error |-> "Tool 'no_such_tool' not found"]
    /\ SelectSeq(events, LAMBDA e : e.op \in {"execute_tool", "execute"}) =
          <<Event("execute_tool", 1, <<"web_search">>), Event("execute", 1, <<"web_search">>),
            Event("execute_tool", 1, <<"no_such_tool">>)>>

\* the starts and ends of blocks in run d since its last model call
LastModelCall(d) ==
    LET ps == { p \in 1..Len(events) : events[p].depth = d /\ events[p].op = "model" }
    IN  IF ps = {} THEN 0 ELSE CHOOSE p \in ps : \A q \in ps : q <= p

BlocksSince(d) ==
    SelectSeq(SubSeq(events, LastModelCall(d) + 1, Len(events)),
              LAMBDA e : e.depth = d /\ e.op \in {"block_start", "block_end"})

\* start and end of each of the blocks, one block after the other
StartEndPairs(d, ids) ==
    [k \in 1..(2 * Len(ids)) |->
        IF k % 2 = 1 THEN Event("block_start", d, ids[(k + 1) \div 2])
        ELSE Event("block_end", d, ids[k \div 2])]

\* a step that starts the handling of a block or issues a model call
C16_SequentialStep ==
    \A k \in 1..Len(NewEvents) :
        LET e == NewEvents[k]
            f == frames[e.depth]
        IN  /\ e.op = "block_start" =>
                  /\ f.response.content[f.bi].type = "tool_use"
                  /\ e.arg = f.response.content[f.bi].id
                  /\ BlocksSince(e.depth) =
                        StartEndPairs(e.depth,
                                      BlockIds(SubSeq(f.response.content, 1, f.bi - 1)))
            /\ (e.op = "model" /\ e.arg >= 2) =>
                  /\ f.response.stop_reason = "tool_use"
                  /\ BlocksSince(e.depth) =
                        StartEndPairs(e.depth, BlockIds(f.response.content))

\* while a specialist runs, the Manager stands at the block that started it
C16_NoOverlap ==
    \A d \in 1..Depth :
        frames[d].pc = "await" =>
            /\ d < Depth
            /\ BlocksSince(d) =
                  StartEndPairs(d, BlockIds(SubSeq(frames[d].response.content, 1,
                                                   frames[d].bi - 1)))
                  \o <<Event("block_start", d, frames[d].response.content[frames[d].bi].id)>>

\* C16: within a run the tool_use blocks of a response are handled one at a
\* time in the order of the response: when the handling of a block starts,
\* every tool_use block before it has started and returned, in order, and no
\* later block has started; when the next model call is issued, every
\* tool_use block of the response has started and returned.
C16_Sequential == [][C16_SequentialStep]_vars /\ []C16_NoOverlap

\* the Manager issued its second model call after a specialist run and a
\* generic tool, the two blocks of its first response, had returned in order
C16_Witness ==
    /\ Depth = 1
    /\ frames[1].agent = "manager"
    /\ SelectSeq(events, LAMBDA e : e.depth = 1 /\ e.op # "execute_tool") =
          <<Event("model", 1, 1),
            Event("block_start", 1, <<1, 1>>),
            Event("run", 1, <<"analyst", PyStr("sub"), PyDict(<< <<"k", "v">> >>)>>),
            Event("block_end", 1, <<1, 1>>),
            Event("block_start", 1, <<1, 2>>),
            Event("execute", 1, <<"store_context">>),
            Event("block_end", 1, <<1, 2>>),
            Event("model", 1, 2)>>
    /\ \E p \in 1..Len(events) : events[p].depth = 2 /\ events[p].op = "model"

(***************************************************************************)
(* The token manager: TokenManager of src/core/token_manager.py.           *)
(*                                                                         *)
(* Money is counted in units of 1e-8 USD, so that the cost of every whole  *)
(* number of tokens is a whole number: a price per 1K tokens is given in   *)
(* units of 1e-5 USD.  Amounts rounded to two decimals are counted in      *)
(* cents, percentages rounded to one decimal in tenths of a percent.       *)
(* Dates are numbered 1, 2, ...                                            *)
(***************************************************************************)
\* most usages recorded in the ledger
MaxRecords == 2
\* last date the clock reaches
MaxDay == 2

\* one cent, the step of round(x, 2)
Cent == 1000000

\* 0.003 and 0.015 USD per 1K tokens
DEFAULT_INPUT_COST == 300
DEFAULT_OUTPUT_COST == 1500

\* settings.max_cost_per_day, read from the environment of the process
MaxCostPerDay == 20 * Cent

\* the daily_budget argument of the constructor; PyNone is the default
DailyBudgets == {PyNone, [t |-> "float", v |-> 10 * Cent]}

DefaultPricing == [input |-> DEFAULT_INPUT_COST, output |-> DEFAULT_OUTPUT_COST]

\* self.model_pricing
ModelPricing ==
    ("claude-sonnet-4-5" :> [input |-> DEFAULT_INPUT_COST, output |-> DEFAULT_OUTPUT_COST])
    @@ ("claude-sonnet-3-5" :> [input |-> 300, output |-> 1500])
    @@ ("claude-haiku" :> [input |-> 25, output |-> 125])

\* the lookup that ignores the table of the models
PricingDefaultOnly(model) == DefaultPricing

\* self.model_pricing.get(model, {default prices})
Pricing(model) ==
    IF model \in DOMAIN ModelPricing THEN ModelPricing[model] ELSE DefaultPricing

\* TokenUsage
TokenUsage(input_tokens, output_tokens, model, timestamp) ==
    [input_tokens |-> input_tokens, output_tokens |-> output_tokens, model |-> model,
     timestamp |-> timestamp]

\* TokenUsage.calculate_cost
CalculateCost(usage, input_cost_per_1k, output_cost_per_1k) ==
    usage.input_tokens * input_cost_per_1k + usage.output_tokens * output_cost_per_1k

\* round(n / d) to the nearest whole number, a tie going to the even one
RoundDiv(n, d) ==
    LET a == IF n < 0 THEN 0 - n ELSE n
        q == a \div d
        r == a % d
        m == IF 2 * r > d THEN q + 1
             ELSE IF 2 * r = d /\ q % 2 = 1 THEN q + 1
             ELSE q
    IN  IF n < 0 THEN 0 - m ELSE m

\* round(x, 2) of an amount, in cents
Round2(x) == RoundDiv(x, Cent)

\* round((total_cost / daily_budget) * 100, 1), in tenths of a percent
\* (the three decimal digits of the quotient are taken one by one)
PercentageUsed(total_cost, daily_budget) ==
    LET r0 == total_cost % daily_budget
        r1 == (r0 * 10) % daily_budget
        r2 == (r1 * 10) % daily_budget
    IN  (total_cost \div daily_budget) * 1000
        + ((r0 * 10) \div daily_budget) * 100
        + ((r1 * 10) \div daily_budget) * 10
        + RoundDiv(r2 * 10, daily_budget)

\* TokenManager.__init__: daily_budget or settings.max_cost_per_day, empty
\* ledgers; tokenizer is FALSE when tiktoken could not be initialised
NewTokenManager(daily_budget, tokenizer) ==
    [t |-> "TokenManager",
     daily_budget |-> IF daily_budget.t = "NoneType" \/ daily_budget.v = 0
                      THEN MaxCostPerDay ELSE daily_budget.v,
     usage_by_agent |-> [a \in {} |-> <<>>],
     usage_by_date |-> [d \in {} |-> <<>>],
     tokenizer |-> tokenizer]

\* defaultdict(list)[key] = [value] in place of append
AppendToReplace(dict, key, value) ==
    IF key \in DOMAIN dict THEN [dict EXCEPT ![key] = <<value>>]
    ELSE dict @@ (key :> <<value>>)

\* defaultdict(list)[key].append(value)
AppendTo(dict, key, value) ==
    IF key \in DOMAIN dict THEN [dict EXCEPT ![key] = Append(@, value)]
    ELSE dict @@ (key :> <<value>>)

\* dict.get(key, [])
GetList(dict, key) == IF key \in DOMAIN dict THEN dict[key] ELSE <<>>

\* record_usage: the cost computed for the usage, at the price of its model
CostOf(usage) ==
    CalculateCost(usage, Pricing(usage.model).input, Pricing(usage.model).output)

\* the ledger after record_usage on the date of the clock
RecordUsage(tm, date, agent_id, input_tokens, output_tokens, model) ==
    LET usage == TokenUsage(input_tokens, output_tokens, model, date)
    IN  [tm EXCEPT !.usage_by_agent = AppendTo(@, agent_id, usage),
                   !.usage_by_date = AppendTo(@, date, usage)]

RECURSIVE SumOf(_, _)
SumOf(usages, field) ==
    IF usages = <<>> THEN 0
    ELSE SumOf(SubSeq(usages, 1, Len(usages) - 1), field) + usages[Len(usages)][field]

\* the loop that adds up the cost of the usages at the price of their model
RECURSIVE TotalCost(_)
TotalCost(usages) ==
    IF usages = <<>> THEN 0
    ELSE TotalCost(SubSeq(usages, 1, Len(usages) - 1))
         + CalculateCost(usages[Len(usages)],
                         Pricing(usages[Len(usages)].model).input,
                         Pricing(usages[Len(usages)].model).output)

\* the date argument of get_daily_usage, 0 standing for None
NoDate == 0

\* the usages of every date up to a day, oldest first
RECURSIVE UsagesUpTo(_, _)
UsagesUpTo(dict, day) ==
    IF day <= 0 THEN <<>> ELSE UsagesUpTo(dict, day - 1) \o GetList(dict, day)

\* get_daily_usage over a ledger that is not split by date
GetDailyUsageCarryOver(tm, clock, date) ==
    LET day == IF date = NoDate THEN clock ELSE date
        usages == UsagesUpTo(tm.usage_by_date, day)
    IN  IF usages = <<>>
        THEN [date |-> day, total_tokens |-> 0, input_tokens |-> 0, output_tokens |-> 0,
              total_cost_usd |-> 0, call_count |-> 0]
        ELSE [date |-> day,
              total_tokens |-> SumOf(usages, "input_tokens") + SumOf(usages, "output_tokens"),
              input_tokens |-> SumOf(usages, "input_tokens"),
              output_tokens |-> SumOf(usages, "output_tokens"),
              total_cost_usd |-> Round2(TotalCost(usages)),
              call_count |-> Len(usages),
              budget_remaining_usd |-> Round2(tm.daily_budget - TotalCost(usages)),
              budget_used_percentage |-> PercentageUsed(TotalCost(usages), tm.daily_budget)]

\* TokenManager.get_daily_usage
GetDailyUsage(tm, clock, date) ==
    LET day == IF date = NoDate THEN clock ELSE date
        usages == GetList(tm.usage_by_date, day)
    IN  IF usages = <<>>
        THEN [date |-> day, total_tokens |-> 0, input_tokens |-> 0, output_tokens |-> 0,
              total_cost_usd |-> 0, call_count |-> 0]
        ELSE [date |-> day,
              total_tokens |-> SumOf(usages, "input_tokens") + SumOf(usages, "output_tokens"),
              input_tokens |-> SumOf(usages, "input_tokens"),
              output_tokens |-> SumOf(usages, "output_tokens"),
              total_cost_usd |-> Round2(TotalCost(usages)),
              call_count |-> Len(usages),
              budget_remaining_usd |-> Round2(tm.daily_budget - TotalCost(usages)),
              budget_used_percentage |-> PercentageUsed(TotalCost(usages), tm.daily_budget)]

\* TokenManager.get_agent_usage
GetAgentUsage(tm, agent_id) ==
    LET usages == GetList(tm.usage_by_agent, agent_id)
        total == SumOf(usages, "input_tokens") + SumOf(usages, "output_tokens")
    IN  IF usages = <<>>
        THEN [agent_id |-> agent_id, total_tokens |-> 0, total_cost_usd |-> 0,
              call_count |-> 0]
        ELSE [agent_id |-> agent_id,
              total_tokens |-> total,
              input_tokens |-> SumOf(usages, "input_tokens"),
              output_tokens |-> SumOf(usages, "output_tokens"),
              total_cost_usd |-> Round2(TotalCost(usages)),
              call_count |-> Len(usages),
              avg_tokens_per_call |-> RoundDiv(total, Len(usages))]

KeyErrorMsg(key) == "KeyError: '" \o key \o "'"

\* what a call gave back: a value, or the exception it raised
Returns(value) == [raised |-> FALSE, value |-> value]
Raises(error) == [raised |-> TRUE, error |-> error]

\* usage[key] on the dictionary of get_daily_usage
HasKey(usage, key) == key \in DOMAIN usage

\* TokenManager.check_budget_available; signal is the warning it logs
CheckBudgetAvailable(tm, clock) ==
    LET usage == GetDailyUsage(tm, clock, NoDate)
    IN  IF ~HasKey(usage, "budget_remaining_usd")
        THEN Raises(KeyErrorMsg("budget_remaining_usd")) @@ [signal |-> "none"]
        ELSE IF usage.budget_remaining_usd < 0
        THEN Returns(FALSE) @@ [signal |-> "daily_budget_exceeded"]
        ELSE IF usage.budget_used_percentage >= 800
        THEN Returns(TRUE) @@ [signal |-> "budget_warning"]
        ELSE Returns(TRUE) @@ [signal |-> "none"]

\* a text: its length in characters and the number of tokens of its encoding
TextOf(chars, tokens) == [chars |-> chars, tokens |-> tokens]

\* TokenManager.estimate_tokens
EstimateTokens(tm, text) ==
    IF ~tm.tokenizer THEN text.chars \div 4 ELSE text.tokens

\* TokenManager.estimate_call_cost
EstimateCallCost(tm, input_text, expected_output_tokens, model) ==
    EstimateTokens(tm, input_text) * Pricing(model).input
    + expected_output_tokens * Pricing(model).output

\* the tuple (should_allow, reason); the remaining budget that the second
\* reason quotes is kept beside the text, in cents
Verdict(allow, reason, remaining) ==
    [allow |-> allow, reason |-> reason, remaining |-> remaining]

\* TokenManager.should_allow_call
ShouldAllowCall(tm, clock, input_text, expected_output_tokens, model) ==
    LET available == CheckBudgetAvailable(tm, clock)
        estimated_cost == EstimateCallCost(tm, input_text, expected_output_tokens, model)
        remaining == GetDailyUsage(tm, clock, NoDate).budget_remaining_usd
    IN  IF available.raised THEN Raises(available.error)
        ELSE IF ~available.value
        THEN Returns(Verdict(FALSE, "Daily budget exceeded", 0))
        ELSE IF estimated_cost > remaining * Cent
        THEN Returns(Verdict(FALSE, "Call would exceed remaining budget", remaining))
        ELSE Returns(Verdict(TRUE, "Budget available", 0))

(***************************************************************************)
(* The calls made to the token manager.                                    *)
(***************************************************************************)
\* the usages that are recorded: agent, input tokens, output tokens, model
UsageInputs ==
    { <<"manager", 20000, 0, "claude-sonnet-4-5">>,
      <<"analyst", 0, 32000, "claude-haiku">>,
      <<"analyst", 16, 0, "claude-haiku">>,
      <<"manager", 10000, 10000, "gpt-4">> }

\* the texts, expected output tokens and models of the calls that are asked for
CallTexts == { TextOf(0, 0), TextOf(3, 1), TextOf(4000, 1000) }
CallOutputs == { 0, 1000 }
CallModels == { "claude-sonnet-4-5", "claude-haiku" }

\* the number of usages in the ledger
RECURSIVE CountOver(_, _)
CountOver(dict, keys) ==
    IF keys = {} THEN 0
    ELSE LET k == CHOOSE x \in keys : TRUE
         IN  Len(dict[k]) + CountOver(dict, keys \ {k})

LedgerSize(tm) == CountOver(tm.usage_by_date, DOMAIN tm.usage_by_date)

Constructed == token_manager # PyNone

\* get_token_manager() builds the singleton on its first call; a caller
\* may also build a TokenManager with a budget of its own
CallGetTokenManager ==
    /\ ~Constructed
    /\ \E daily_budget \in DailyBudgets, tokenizer \in BOOLEAN :
          token_manager' = NewTokenManager(daily_budget, tokenizer)
    /\ last' = NoCall
    /\ UNCHANGED today
    /\ UNCHANGED <<runVars, routerVars, cacheVars>>

\* record_usage(agent_id, input_tokens, output_tokens, model)
CallRecordUsage ==
    /\ Constructed
    /\ LedgerSize(token_manager) < MaxRecords
    /\ \E u \in UsageInputs :
          /\ token_manager' = RecordUsage(token_manager, today, u[1], u[2], u[3], u[4])
          /\ last' = [op |-> "record_usage", args |-> u,
                       cost |-> CostOf(TokenUsage(u[2], u[3], u[4], today)),
                       result |-> Returns(TokenUsage(u[2], u[3], u[4], today))]
    /\ UNCHANGED today
    /\ UNCHANGED <<runVars, routerVars, cacheVars>>

\* get_daily_usage(date)
CallGetDailyUsage ==
    /\ Constructed
    /\ \E date \in {NoDate} \cup 1..MaxDay :
          last' = [op |-> "get_daily_usage", args |-> date,
                   result |-> Returns(GetDailyUsage(token_manager, today, date))]
    /\ UNCHANGED <<token_manager, today>>
    /\ UNCHANGED <<runVars, routerVars, cacheVars>>

\* get_agent_usage(agent_id)
CallGetAgentUsage ==
    /\ Constructed
    /\ \E agent_id \in {"manager", "analyst", "ghost"} :
          last' = [op |-> "get_agent_usage", args |-> agent_id,
                   result |-> Returns(GetAgentUsage(token_manager, agent_id))]
    /\ UNCHANGED <<token_manager, today>>
    /\ UNCHANGED <<runVars, routerVars, cacheVars>>

\* check_budget_available()
CallCheckBudgetAvailable ==
    /\ Constructed
    /\ last' = [op |-> "check_budget_available", args |-> <<>>,
                 result |-> CheckBudgetAvailable(token_manager, today)]
    /\ UNCHANGED <<token_manager, today>>
    /\ UNCHANGED <<runVars, routerVars, cacheVars>>

\* should_allow_call(input_text, expected_output_tokens, model)
CallShouldAllowCall ==
    /\ Constructed
    /\ \E input_text \in CallTexts, expected_output_tokens \in CallOutputs,
          model \in CallModels :
          last' = [op |-> "should_allow_call",
                   args |-> <<input_text, expected_output_tokens, model>>,
                   result |-> ShouldAllowCall(token_manager, today, input_text,
                                              expected_output_tokens, model)]
    /\ UNCHANGED <<token_manager, today>>
    /\ UNCHANGED <<runVars, routerVars, cacheVars>>

\* the date of datetime.utcnow() moves on to the next day
Midnight ==
    /\ today < MaxDay
    /\ today' = today + 1
    /\ last' = NoCall
    /\ UNCHANGED token_manager
    /\ UNCHANGED <<runVars, routerVars, cacheVars>>

BudgetNext ==
    \/ CallGetTokenManager
    \/ CallRecordUsage
    \/ CallGetDailyUsage
    \/ CallGetAgentUsage
    \/ CallCheckBudgetAvailable
    \/ CallShouldAllowCall
    \/ Midnight

\* the process starts: as Init, in the one environment it is deployed to
BudgetInit == Init /\ environment = "development"

BudgetSpec == BudgetInit /\ [][BudgetNext]_vars

BudgetTypeOK ==
    /\ today \in 1..MaxDay
    /\ Constructed =>
          /\ token_manager.daily_budget > 0
          /\ LedgerSize(token_manager) <= MaxRecords
          /\ LedgerSize(token_manager) =
                CountOver(token_manager.usage_by_agent, DOMAIN token_manager.usage_by_agent)

(***************************************************************************)
(* Properties of the token manager.                                        *)
(***************************************************************************)
\* the usages recorded on a date, and what was spent on the date of the clock
EntriesOf(date) == GetList(token_manager.usage_by_date, date)
SpentToday == TotalCost(EntriesOf(today))

\* the last call to the token manager was op, and nothing changed since
LastCall(op) == Constructed /\ last.op = op

\* the usages that the per-agent ledger holds for a date
RECURSIVE RecordedOn(_, _, _)
RecordedOn(dict, keys, date) ==
    IF keys = {} THEN 0
    ELSE LET k == CHOOSE x \in keys : TRUE
         IN  Len(SelectSeq(dict[k], LAMBDA u : u.timestamp = date))
             + RecordedOn(dict, keys \ {k}, date)

\* C17 as stated: whenever get_daily_usage().total_cost_usd is at least the
\* daily budget, should_allow_call returns (false, reason), for every text,
\* every number of expected output tokens and every model.
C17_Original ==
    (/\ LastCall("should_allow_call")
     /\ GetDailyUsage(token_manager, today, NoDate).total_cost_usd * Cent
           >= token_manager.daily_budget) =>
        /\ ~last.result.raised
        /\ last.result.value.allow = FALSE

\* C18 as stated: check_budget_available returns true iff what was spent
\* today is strictly below the daily budget, in every state of the ledger,
\* the ledger without a usage today and the ledger whose spend equals the
\* budget included; the 80% warning does not change the value.
C18_Original ==
    LastCall("check_budget_available") =>
        /\ ~last.result.raised
        /\ last.result.value = (SpentToday < token_manager.daily_budget)

\* C19 as stated: should_allow_call never raises and returns a pair
\* (bool, reason) with one of three outcomes: denied because the budget is
\* exhausted, denied because the estimated cost exceeds what remains, or
\* allowed; in every state of the ledger, the one before any usage was
\* recorded today included.
C19_Original ==
    LastCall("should_allow_call") =>
        /\ ~last.result.raised
        /\ last.result.value.allow \in BOOLEAN
        /\ last.result.value.reason \in
              {"Daily budget exceeded", "Call would exceed remaining budget",
               "Budget available"}
        /\ last.result.value.allow = (last.result.value.reason = "Budget available")

\* C20 as stated: get_daily_usage(date) reports for every date, one without
\* entries included, the token totals, the total cost and the call count of
\* the entries of that date, the remaining budget and the percentage used;
\* call_count is the number of record_usage calls made on that date.
C20_Original ==
    LastCall("get_daily_usage") =>
        LET r == last.result.value
            date == IF last.args = NoDate THEN today ELSE last.args
            entries == EntriesOf(date)
        IN  /\ ~last.result.raised
            /\ r.date = date
            /\ r.input_tokens = SumOf(entries, "input_tokens")
            /\ r.output_tokens = SumOf(entries, "output_tokens")
            /\ r.total_tokens = r.input_tokens + r.output_tokens
            /\ r.total_cost_usd = Round2(TotalCost(entries))
            /\ r.call_count = Len(entries)
            /\ r.call_count = RecordedOn(token_manager.usage_by_agent,
                                         DOMAIN token_manager.usage_by_agent, date)
            /\ {"budget_remaining_usd", "budget_used_percentage"} \subseteq DOMAIN r
            /\ r.budget_remaining_usd = Round2(token_manager.daily_budget - TotalCost(entries))
            /\ r.budget_used_percentage =
                  PercentageUsed(TotalCost(entries), token_manager.daily_budget)

\* the cost of the usages recorded on a date, and the last of a sequence
IsPrefix(old, new) == Len(old) <= Len(new) /\ SubSeq(new, 1, Len(old)) = old
LastOf(seq) == seq[Len(seq)]

\* a step of a token manager that exists before and after it
ManagerStep == Constructed /\ token_manager' # PyNone

\* the step is a record_usage call: the only one that changes the ledger
RecordStep == ManagerStep /\ token_manager' # token_manager

\* the steps that leave the ledger and the date alone are not recomputed
C21_DayStep ==
    (ManagerStep /\ <<token_manager, today>>' # <<token_manager, today>>) =>
        /\ \A date \in 1..MaxDay :
              GetDailyUsage(token_manager', today', date).total_cost_usd
                 >= GetDailyUsage(token_manager, today, date).total_cost_usd
        /\ today' = today =>
              GetDailyUsage(token_manager', today', NoDate).total_cost_usd
                 >= GetDailyUsage(token_manager, today, NoDate).total_cost_usd
        /\ today' # today =>
              /\ GetDailyUsage(token_manager', today', NoDate).total_cost_usd = 0
              /\ GetDailyUsage(token_manager', today', NoDate).call_count = 0
        /\ \A date \in 1..MaxDay :
              date # today' =>
                 GetDailyUsage(token_manager', today', date)
                    = GetDailyUsage(token_manager, today, date)

\* C21: within a day the total cost that get_daily_usage reports never
\* decreases over record_usage calls; when the date changes the new day's
\* total cost and call count are zero whatever the earlier days hold; and a
\* usage recorded on a day leaves the report of every other day unchanged.
C21_DailyTotal == [][C21_DayStep]_vars

\* a usage was recorded on the second day, after one on the first day
C21_Witness ==
    /\ LastCall("record_usage")
    /\ today = 2
    /\ EntriesOf(1) # <<>>
    /\ EntriesOf(2) # <<>>

\* C22 as stated: record_usage appends one entry and returns the cost
\* computed for it.
C22_Original ==
    LastCall("record_usage") =>
        last.result.value = [t |-> "float", v |-> last.cost]

C22_RecordStep ==
    RecordStep =>
        LET u == last'.args
            entry == last'.result.value
        IN  /\ last'.op = "record_usage"
            /\ ~last'.result.raised
            /\ LedgerSize(token_manager') = LedgerSize(token_manager) + 1
            /\ entry = LastOf(GetList(token_manager'.usage_by_date, today'))
            /\ entry.input_tokens = u[2]
            /\ entry.output_tokens = u[3]
            /\ entry.model = u[4]
            /\ last'.cost =
                  IF u[4] \in DOMAIN ModelPricing
                  THEN u[2] * ModelPricing[u[4]].input + u[3] * ModelPricing[u[4]].output
                  ELSE u[2] * DEFAULT_INPUT_COST + u[3] * DEFAULT_OUTPUT_COST
            /\ TotalCost(GetList(token_manager'.usage_by_date, today'))
                  = TotalCost(GetList(token_manager.usage_by_date, today)) + last'.cost

\* C22 amended: record_usage appends exactly one ledger entry and returns
\* that entry, the TokenUsage with the token counts and the model, not a
\* cost; the cost it computes for the entry, which is also what the entry
\* adds to the day's total, is priced with the model's own price entry when
\* the model is recognized and with the default price table otherwise.
C22_RecordUsage == [][C22_RecordStep]_vars

\* a usage of a recognized model other than the default one and a usage of
\* an unrecognized model were recorded
C22_Witness ==
    /\ LastCall("record_usage")
    /\ last.args[4] = "gpt-4"
    /\ \E k \in 1..Len(EntriesOf(today)) : EntriesOf(today)[k].model = "claude-haiku"

\* the buckets whose length the step changed
Grown(old, new) ==
    { k \in DOMAIN new : Len(new[k]) # Len(GetList(old, k)) }

C23_AppendOnlyStep ==
    ManagerStep =>
        /\ \A k \in DOMAIN token_manager.usage_by_agent :
              /\ k \in DOMAIN token_manager'.usage_by_agent
              /\ IsPrefix(token_manager.usage_by_agent[k], token_manager'.usage_by_agent[k])
        /\ \A k \in DOMAIN token_manager.usage_by_date :
              /\ k \in DOMAIN token_manager'.usage_by_date
              /\ IsPrefix(token_manager.usage_by_date[k], token_manager'.usage_by_date[k])
        /\ (last'.op = "record_usage" /\ last' # last) =>
              LET grownAgents == Grown(token_manager.usage_by_agent, token_manager'.usage_by_agent)
                  dates == Grown(token_manager.usage_by_date, token_manager'.usage_by_date)
              IN  /\ grownAgents = {last'.args[1]}
                  /\ dates = {today'}
                  /\ \A k \in grownAgents :
                        token_manager'.usage_by_agent[k] =
                           Append(GetList(token_manager.usage_by_agent, k), last'.result.value)
                  /\ \A k \in dates :
                        token_manager'.usage_by_date[k] =
                           Append(GetList(token_manager.usage_by_date, k), last'.result.value)
        /\ last'.op # "record_usage" => token_manager' = token_manager

C23_SameCount ==
    Constructed =>
        CountOver(token_manager.usage_by_agent, DOMAIN token_manager.usage_by_agent)
           = CountOver(token_manager.usage_by_date, DOMAIN token_manager.usage_by_date)

\* C23: the ledger is append-only: a record_usage call adds its entry at
\* the end of exactly one agent bucket and of exactly one date bucket, no
\* operation of the token manager removes, reorders or changes an entry
\* that is there, and in every state the agent buckets hold as many
\* entries as the date buckets.
C23_AppendOnly == [][C23_AppendOnlyStep]_vars /\ []C23_SameCount

\* a second usage was recorded for the same agent on the same date, and
\* then a report was asked for
C23_Witness ==
    /\ LastCall("get_agent_usage")
    /\ \E k \in DOMAIN token_manager.usage_by_agent :
          Len(token_manager.usage_by_agent[k]) >= 2
    /\ \E k \in DOMAIN token_manager.usage_by_date :
          Len(token_manager.usage_by_date[k]) >= 2

(***************************************************************************)
(* The model router: ModelRouter of src/core/model_router.py.              *)
(*                                                                         *)
(* Prices per 1M tokens are counted in cents, temperatures in tenths, and  *)
(* an estimated cost in units of 1e-8 USD.                                 *)
(***************************************************************************)
\* MODEL_PRICING, by the name of the tier
MODEL_PRICING ==
    ("HAIKU" :> [model_id |-> "claude-3-5-haiku-20241022", input_cost_per_1m |-> 25,
                 output_cost_per_1m |-> 125, max_tokens |-> 8192,
                 context_window |-> 200000])
    @@ ("SONNET" :> [model_id |-> "claude-sonnet-4-5", input_cost_per_1m |-> 300,
                     output_cost_per_1m |-> 1500, max_tokens |-> 8192,
                     context_window |-> 200000])
    @@ ("OPUS" :> [model_id |-> "claude-3-opus-20240229", input_cost_per_1m |-> 1500,
                   output_cost_per_1m |-> 7500, max_tokens |-> 4096,
                   context_window |-> 200000])

\* a member of the enumeration TaskComplexity
TaskComplexity(v) == [t |-> "TaskComplexity", v |-> v]

\* ModelRouter._init_routing_rules
InitRoutingRules ==
    ("simple" :> [model |-> "HAIKU", max_tokens |-> 2048, temperature |-> 3,
                  use_cases |-> <<"classification", "extraction", "summarization",
                                  "validation", "formatting", "routing">>])
    @@ ("medium" :> [model |-> "SONNET", max_tokens |-> 4096, temperature |-> 7,
                     use_cases |-> <<"analysis", "generation", "reasoning", "planning",
                                     "research">>])
    @@ ("complex" :> [model |-> "SONNET", max_tokens |-> 8192, temperature |-> 8,
                      use_cases |-> <<"multi_step_reasoning", "creative_work",
                                      "complex_analysis", "strategic_planning",
                                      "orchestration">>])

\* ModelRouter.__init__
NewModelRouter == [t |-> "ModelRouter", routing_rules |-> InitRoutingRules]

\* str.lower, letter by letter
UpperToLower ==
    ("A" :> "a") @@ ("B" :> "b") @@ ("C" :> "c") @@ ("D" :> "d") @@ ("E" :> "e") @@
    ("F" :> "f") @@ ("G" :> "g") @@ ("H" :> "h") @@ ("I" :> "i") @@ ("J" :> "j") @@
    ("K" :> "k") @@ ("L" :> "l") @@ ("M" :> "m") @@ ("N" :> "n") @@ ("O" :> "o") @@
    ("P" :> "p") @@ ("Q" :> "q") @@ ("R" :> "r") @@ ("S" :> "s") @@ ("T" :> "t") @@
    ("U" :> "u") @@ ("V" :> "v") @@ ("W" :> "w") @@ ("X" :> "x") @@ ("Y" :> "y") @@
    ("Z" :> "z")

RECURSIVE Lower(_)
Lower(text) ==
    IF text = "" THEN ""
    ELSE LET c == SubSeq(text, 1, 1)
         IN  (IF c \in DOMAIN UpperToLower THEN UpperToLower[c] ELSE c)
             \o Lower(SubSeq(text, 2, Len(text)))

\* indicator in text: the indicator occurs somewhere in the text
Contains(text, indicator) ==
    \E i \in 1..(Len(text) - Len(indicator) + 1) :
       SubSeq(text, i, i + Len(indicator) - 1) = indicator

\* any(indicator in text for indicator in indicators)
AnyIn(indicators, text) == \E k \in 1..Len(indicators) : Contains(text, indicators[k])

SonnetAgents == {"sales_machine", "brand_builder", "growth_hacker"}

SimpleIndicators ==
    <<"classify", "extract", "summarize", "validate", "format", "parse", "check if",
      "is this", "yes or no", "list the", "count the">>

ComplexIndicators ==
    <<"analyze and recommend", "create a strategy", "design a", "write copy",
      "generate content", "plan a", "come up with", "brainstorm", "multiple steps",
      "comprehensive">>

\* _detect_complexity that looks for the complex indicators first
DetectComplexityComplexFirst(task_description, agent_id) ==
    LET task_lower == Lower(task_description)
    IN  IF agent_id \in SonnetAgents THEN "complex"
        ELSE IF AnyIn(ComplexIndicators, task_lower) THEN "complex"
        ELSE IF AnyIn(SimpleIndicators, task_lower) THEN "simple"
        ELSE "medium"

\* ModelRouter._detect_complexity
DetectComplexity(task_description, agent_id) ==
    LET task_lower == Lower(task_description)
    IN  IF agent_id \in SonnetAgents THEN "complex"
        ELSE IF AnyIn(SimpleIndicators, task_lower) THEN "simple"
        ELSE IF AnyIn(ComplexIndicators, task_lower) THEN "complex"
        ELSE "medium"

\* route_task that keeps the configuration it resolved as the one of the
\* medium tier
RouteTaskSticky(router, task_description, agent_id, explicit_complexity) ==
    LET complexity == IF Truthy(explicit_complexity) THEN explicit_complexity.v
                      ELSE DetectComplexity(task_description, agent_id)
        config == router.routing_rules[complexity]
        pricing == MODEL_PRICING[config.model]
    IN  [router |-> [router EXCEPT !.routing_rules["medium"] = config],
         value |-> [model |-> pricing.model_id,
                    max_tokens |-> config.max_tokens,
                    temperature |-> config.temperature,
                    pricing |-> [input_per_1m |-> pricing.input_cost_per_1m,
                                 output_per_1m |-> pricing.output_cost_per_1m]]]

\* ModelRouter.route_task: the router after the call and the value returned
RouteTask(router, task_description, agent_id, explicit_complexity) ==
    LET complexity == IF Truthy(explicit_complexity) THEN explicit_complexity.v
                      ELSE DetectComplexity(task_description, agent_id)
        config == router.routing_rules[complexity]
        pricing == MODEL_PRICING[config.model]
    IN  [router |-> router,
         value |-> [model |-> pricing.model_id,
                    max_tokens |-> config.max_tokens,
                    temperature |-> config.temperature,
                    pricing |-> [input_per_1m |-> pricing.input_cost_per_1m,
                                 output_per_1m |-> pricing.output_cost_per_1m]]]

\* the table agent_routing of get_model_for_agent
AgentRouting ==
    ("manager" :> (("routing" :> "HAIKU") @@ ("orchestration" :> "SONNET")))
    @@ ("analyst" :> (("research" :> "SONNET") @@ ("summarization" :> "HAIKU")))
    @@ ("growth_hacker" :> ("default" :> "SONNET"))
    @@ ("sales_machine" :> ("default" :> "SONNET"))
    @@ ("system_builder" :> (("documentation" :> "SONNET") @@ ("validation" :> "HAIKU")))
    @@ ("brand_builder" :> ("default" :> "SONNET"))

\* ModelRouter.get_model_for_agent
GetModelForAgent(agent_id, task_type) ==
    LET agent_config == IF agent_id \in DOMAIN AgentRouting THEN AgentRouting[agent_id]
                        ELSE [k \in {} |-> "SONNET"]
        model_tier == IF task_type \in DOMAIN agent_config THEN agent_config[task_type]
                      ELSE IF "default" \in DOMAIN agent_config THEN agent_config["default"]
                      ELSE "SONNET"
    IN  MODEL_PRICING[model_tier].model_id

\* ModelRouter.estimate_cost
EstimateCost(input_tokens, output_tokens, model_tier) ==
    input_tokens * MODEL_PRICING[model_tier].input_cost_per_1m
    + output_tokens * MODEL_PRICING[model_tier].output_cost_per_1m

\* ModelRouter.get_pricing_info
GetPricingInfo(router) ==
    [tier \in {"haiku", "sonnet", "opus"} |->
        LET name == CHOOSE n \in DOMAIN MODEL_PRICING : Lower(n) = tier
            pricing == MODEL_PRICING[name]
        IN  [model_id |-> pricing.model_id,
             input_per_1m_tokens |-> pricing.input_cost_per_1m,
             output_per_1m_tokens |-> pricing.output_cost_per_1m,
             max_tokens |-> pricing.max_tokens,
             context_window |-> pricing.context_window,
             use_case |-> router.routing_rules[IF name = "HAIKU" THEN "simple"
                                               ELSE "complex"].use_cases]]

(***************************************************************************)
(* The calls made to the model router.                                     *)
(***************************************************************************)
\* the task descriptions, the agents and the explicit complexities routed
TaskTexts ==
    { "Research the market", "Summarize the report", "Brainstorm new ideas",
      "Design a plan and VALIDATE it", "Give me information" }
RoutedAgents == { "analyst", "growth_hacker", "sales_machine", "brand_builder" }
ExplicitComplexities == { PyNone, TaskComplexity("simple"), TaskComplexity("complex") }

RouterConstructed == model_router # PyNone

\* another call was made to the router since the first route_task call
Touch(first) == IF first = NoCall THEN first ELSE [first EXCEPT !.between = TRUE]

\* get_model_router() builds the singleton on its first call
CallGetModelRouter ==
    /\ ~RouterConstructed
    /\ model_router' = NewModelRouter
    /\ UNCHANGED first_route
    /\ UNCHANGED <<runVars, budgetVars, cacheVars>>

\* route_task(task_description, agent_id, explicit_complexity)
CallRouteTask ==
    /\ RouterConstructed
    /\ \E task_description \in TaskTexts, agent_id \in RoutedAgents,
          explicit_complexity \in ExplicitComplexities :
          LET o == RouteTask(model_router, task_description, agent_id, explicit_complexity)
              call == [op |-> "route_task",
                       args |-> <<task_description, agent_id, explicit_complexity>>,
                       result |-> Returns(o.value)]
          IN  /\ model_router' = o.router
              /\ last' = call
              /\ first_route' = IF first_route = NoCall
                                THEN call @@ [between |-> FALSE]
                                ELSE first_route
    /\ UNCHANGED <<token_manager, today>>
    /\ UNCHANGED <<runVars, cacheVars>>

\* get_model_for_agent(agent_id, task_type)
CallGetModelForAgent ==
    /\ RouterConstructed
    /\ \E agent_id \in {"manager", "growth_hacker", "ghost"},
          task_type \in {"default", "routing"} :
          last' = [op |-> "get_model_for_agent", args |-> <<agent_id, task_type>>,
                   result |-> Returns(GetModelForAgent(agent_id, task_type))]
    /\ first_route' = Touch(first_route)
    /\ UNCHANGED <<model_router, token_manager, today>>
    /\ UNCHANGED <<runVars, cacheVars>>

\* estimate_cost(input_tokens, output_tokens, model_tier)
CallEstimateCost ==
    /\ RouterConstructed
    /\ \E tokens \in {<<1000, 500>>}, model_tier \in DOMAIN MODEL_PRICING :
          last' = [op |-> "estimate_cost", args |-> <<tokens[1], tokens[2], model_tier>>,
                   result |-> Returns(EstimateCost(tokens[1], tokens[2], model_tier))]
    /\ first_route' = Touch(first_route)
    /\ UNCHANGED <<model_router, token_manager, today>>
    /\ UNCHANGED <<runVars, cacheVars>>

\* get_pricing_info()
CallGetPricingInfo ==
    /\ RouterConstructed
    /\ last' = [op |-> "get_pricing_info", args |-> <<>>,
                 result |-> Returns(GetPricingInfo(model_router))]
    /\ first_route' = Touch(first_route)
    /\ UNCHANGED <<model_router, token_manager, today>>
    /\ UNCHANGED <<runVars, cacheVars>>

RouterNext ==
    \/ CallGetModelRouter
    \/ CallRouteTask
    \/ CallGetModelForAgent
    \/ CallEstimateCost
    \/ CallGetPricingInfo

\* the process starts: as Init, in the one environment it is deployed to
RouterInit == Init /\ environment = "development"

RouterSpec == RouterInit /\ [][RouterNext]_vars

(***************************************************************************)
(* Properties of the model router.                                         *)
(***************************************************************************)
\* the last call to the router was op
RouterCall(op) == RouterConstructed /\ last.op = op

C24_SameOutput ==
    (/\ RouterCall("route_task")
     /\ first_route # NoCall
     /\ last.args = first_route.args) =>
        last.result = first_route.result

C24_NoStateChange ==
    RouterConstructed => model_router' = model_router

\* C24: route_task called twice with the same task description, agent and
\* explicit complexity returns the same output, whatever calls were made to
\* the router in between, and no call changes the state of the router.
C24_Purity == []C24_SameOutput /\ [][C24_NoStateChange]_vars

\* the first route_task call is repeated after other calls, among them a
\* call that resolved another tier
C24_Witness ==
    /\ RouterCall("route_task")
    /\ first_route # NoCall
    /\ first_route.between
    /\ last.args = first_route.args
    /\ last.result.value.max_tokens = 4096

\* what the task descriptions hold: a simple indicator, a complex indicator
TextFacts ==
    ("Research the market" :> [simple |-> FALSE, complex |-> FALSE])
    @@ ("Summarize the report" :> [simple |-> TRUE, complex |-> FALSE])
    @@ ("Brainstorm new ideas" :> [simple |-> FALSE, complex |-> TRUE])
    @@ ("Design a plan and VALIDATE it" :> [simple |-> TRUE, complex |-> TRUE])
    @@ ("Give me information" :> [simple |-> TRUE, complex |-> FALSE])

\* the fixed tuple of a tier: model, max_tokens, temperature and pricing
TierTuple(tier) ==
    CASE tier = "simple" ->
            [model |-> "claude-3-5-haiku-20241022", max_tokens |-> 2048, temperature |-> 3,
             pricing |-> [input_per_1m |-> 25, output_per_1m |-> 125]]
      [] tier = "medium" ->
            [model |-> "claude-sonnet-4-5", max_tokens |-> 4096, temperature |-> 7,
             pricing |-> [input_per_1m |-> 300, output_per_1m |-> 1500]]
      [] tier = "complex" ->
            [model |-> "claude-sonnet-4-5", max_tokens |-> 8192, temperature |-> 8,
             pricing |-> [input_per_1m |-> 300, output_per_1m |-> 1500]]

\* the tier by the precedence of the claim
ResolvedTier(task_description, agent_id, explicit_complexity) ==
    IF explicit_complexity # PyNone THEN explicit_complexity.v
    ELSE IF agent_id \in {"sales_machine", "brand_builder", "growth_hacker"} THEN "complex"
    ELSE IF TextFacts[task_description].simple THEN "simple"
    ELSE IF TextFacts[task_description].complex THEN "complex"
    ELSE "medium"

\* C25: route_task resolves the complexity by a fixed precedence: an
\* explicit complexity first, then the agents of the override table, which
\* are complex whatever the text, then a simple indicator in the text, also
\* beside a complex one, then a complex indicator, and medium otherwise; it
\* returns the model, max_tokens, temperature and pricing of that tier.
C25_Precedence ==
    RouterCall("route_task") =>
        /\ ~last.result.raised
        /\ last.result.value = TierTuple(ResolvedTier(last.args[1], last.args[2], last.args[3]))

\* a text with a simple and a complex indicator was routed for an agent
\* outside the override table, without an explicit complexity
C25_Witness ==
    /\ RouterCall("route_task")
    /\ last.args = <<"Design a plan and VALIDATE it", "analyst", PyNone>>
    /\ last.result.value.model = "claude-3-5-haiku-20241022"

(***************************************************************************)
(* Properties of the human-approval tool and of conversation_history.      *)
(***************************************************************************)
\* the Manager's run f is about to handle a request_human_approval block
AtApproval(f) ==
    /\ f.agent = "manager"
    /\ f.pc = "dispatch"
    /\ f.bi <= Len(f.response.content)
    /\ f.response.content[f.bi].type = "tool_use"
    /\ f.response.content[f.bi].name = <<"request_human_approval">>

\* the tool result r answers an approval in the environment
IsApprovalResult(r, id) ==
    /\ r.type = "tool_result"
    /\ r.tool_use_id = id
    /\ r.content.enc = "json"
    /\ r.content.of.approved = (environment = "development")
    /\ r.content.of.message = IF environment = "development"
                              THEN "Auto-approved in development mode"
                              ELSE "Human approval required (not implemented yet)"

C26_ApprovalStep ==
    (Depth >= 1 /\ AtApproval(Top)) =>
        LET f == frames[Depth]
            g == frames'[Depth]
            block == f.response.content[f.bi]
        IN  /\ Len(frames') = Depth
            /\ g.pc = "dispatch"
            /\ g.bi = f.bi + 1
            /\ Len(g.tool_results) = Len(f.tool_results) + 1
            /\ SubSeq(g.tool_results, 1, Len(f.tool_results)) = f.tool_results
            /\ IsApprovalResult(g.tool_results[Len(g.tool_results)], block.id)
            /\ NewEvents = <<Event("block_start", Depth, block.id),
                             Event("block_end", Depth, block.id)>>

\* the approval blocks of the assistant turns of a run are answered in the
\* user turn that follows
C26_FedBack ==
    \A i \in 1..Depth :
       frames[i].agent = "manager" =>
          \A n \in 1..((Len(frames[i].messages) - 1) \div 2) :
             LET asked == frames[i].messages[2 * n].content
                 answered == frames[i].messages[2 * n + 1].content
             IN  \A k \in 1..Len(asked) :
                    (asked[k].type = "tool_use"
                     /\ asked[k].name = <<"request_human_approval">>) =>
                       \E j \in 1..Len(answered) :
                          IsApprovalResult(answered[j], asked[k].id)

\* C26: the Manager's dispatch of a request_human_approval block returns at
\* once, with approved = true in the development environment and otherwise
\* with approved = false and the message that approval is not implemented;
\* the run neither suspends nor fails, and the result is appended like any
\* tool result and sent to the model in the next user turn.
C26_Approval == [][C26_ApprovalStep]_vars /\ []C26_FedBack

\* outside development a refused approval was sent back and the model was
\* called again
C26_Witness ==
    /\ environment = "production"
    /\ Depth = 1
    /\ Top.agent = "manager"
    /\ Top.calls = 2
    /\ \E j \in 1..Len(Top.messages[3].content) :
          /\ Top.messages[3].content[j].content.of = 
                [approved |-> FALSE,
                 message |-> "Human approval required (not implemented yet)",
                 decision |-> PyStr("d"),
                 action_required |-> "Implement human approval workflow"]

(***************************************************************************)
(* The prompt cache: PromptCache and CacheStrategy of                      *)
(* src/core/prompt_cache.py.                                               *)
(*                                                                         *)
(* Savings are counted in units of 1e-8 USD: a token read from the cache   *)
(* saves 2.70 USD per million, 270 units.  The hit rate is counted in      *)
(* tenths of a percent.                                                    *)
(***************************************************************************)
\* most hits and misses counted before the statistics are reset
MaxCached == 2

MIN_TOKENS_TO_CACHE == 1024

\* should_cache_system_prompt with a strict comparison
ShouldCacheSystemPromptAbove(prompt_length) == prompt_length > MIN_TOKENS_TO_CACHE

\* CacheStrategy.should_cache_system_prompt
ShouldCacheSystemPrompt(prompt_length) == prompt_length >= MIN_TOKENS_TO_CACHE

\* CacheStrategy.should_cache_tools
ShouldCacheTools(num_tools) == num_tools > 3

\* CacheStrategy.should_cache_conversation_history
ShouldCacheConversationHistory(num_turns) == num_turns > 2

\* CacheStrategy.get_optimal_cache_points
GetOptimalCachePoints(system_prompt_tokens, num_tools, conversation_turns) ==
    [cache_system |-> ShouldCacheSystemPrompt(system_prompt_tokens),
     cache_tools |-> ShouldCacheTools(num_tools),
     cache_history |-> ShouldCacheConversationHistory(conversation_turns)]

\* PromptCache.__init__, and the dictionary reset_stats assigns
NewCacheStats == [hits |-> 0, misses |-> 0, savings_usd |-> 0]
NewPromptCache == [t |-> "PromptCache", cache_stats |-> NewCacheStats]

\* {"type": "ephemeral"}
Ephemeral == [type |-> "ephemeral"]

\* PromptCache.create_cached_system_prompt
CreateCachedSystemPrompt(system_prompt, cache_enabled) ==
    IF ~cache_enabled
    THEN <<[type |-> "text", text |-> system_prompt]>>
    ELSE <<[type |-> "text", text |-> system_prompt, cache_control |-> Ephemeral]>>

\* a list of tool definitions
PyList(items) == [t |-> "list", items |-> items]

\* tools[-1]["cache_control"] = {"type": "ephemeral"}
MarkLast(tools) ==
    PyList([k \in 1..Len(tools.items) |->
               IF k = Len(tools.items)
               THEN [n \in DOMAIN tools.items[k] \cup {"cache_control"} |->
                        IF n = "cache_control" THEN Ephemeral ELSE tools.items[k][n]]
               ELSE tools.items[k]])

\* bool(tools) of a list or None
HasTools(tools) == tools.t = "list" /\ Len(tools.items) > 0

\* create_message_with_caching up to the API call: the request it sends,
\* and the caller's tool definitions, which the copied list shares
AssembleRequest(model, system, messages, max_tokens, temperature, tools, cache_system, cache_tools) ==
    LET system_blocks == IF cache_system THEN CreateCachedSystemPrompt(system, TRUE)
                         ELSE <<[type |-> "text", text |-> system]>>
        tools_with_cache == IF HasTools(tools) /\ cache_tools /\ Len(tools.items) > 0
                            THEN MarkLast(tools) ELSE tools
        request_params == [model |-> model, max_tokens |-> max_tokens,
                           temperature |-> temperature, system |-> system_blocks,
                           messages |-> messages]
    IN  [request |-> IF HasTools(tools_with_cache)
                     THEN request_params @@ [tools |-> tools_with_cache]
                     ELSE request_params,
         tools |-> tools_with_cache]

\* an int of the usage of a response; the field may also hold None
PyInt(n) == [t |-> "int", v |-> n]

\* getattr(usage, name, 0)
GetAttr(usage, name) == IF name \in DOMAIN usage THEN usage[name] ELSE PyInt(0)

NoneCompareMsg == "'>' not supported between instances of 'NoneType' and 'int'"

\* _record_cache_usage that keeps the savings of the last hit only
RecordCacheUsageLastSavings(cache, usage) ==
    LET cache_creation_tokens == GetAttr(usage, "cache_creation_input_tokens")
        cache_read_tokens == GetAttr(usage, "cache_read_input_tokens")
        hit == IF cache_read_tokens = PyNone THEN cache
               ELSE IF cache_read_tokens.v > 0
               THEN [cache EXCEPT !.cache_stats.hits = @ + 1,
                                  !.cache_stats.savings_usd = cache_read_tokens.v * 270]
               ELSE cache
    IN  IF cache_read_tokens = PyNone THEN [cache |-> cache, raised |-> TRUE]
        ELSE IF cache_creation_tokens = PyNone THEN [cache |-> hit, raised |-> TRUE]
        ELSE IF cache_creation_tokens.v > 0
        THEN [cache |-> [hit EXCEPT !.cache_stats.misses = @ + 1], raised |-> FALSE]
        ELSE [cache |-> hit, raised |-> FALSE]

\* PromptCache._record_cache_usage: the cache after it, and whether a
\* comparison of None with 0 raised
RecordCacheUsage(cache, usage) ==
    LET cache_creation_tokens == GetAttr(usage, "cache_creation_input_tokens")
        cache_read_tokens == GetAttr(usage, "cache_read_input_tokens")
        hit == IF cache_read_tokens = PyNone THEN cache
               ELSE IF cache_read_tokens.v > 0
               THEN [cache EXCEPT !.cache_stats.hits = @ + 1,
                                  !.cache_stats.savings_usd = @ + cache_read_tokens.v * 270]
               ELSE cache
    IN  IF cache_read_tokens = PyNone THEN [cache |-> cache, raised |-> TRUE]
        ELSE IF cache_creation_tokens = PyNone THEN [cache |-> hit, raised |-> TRUE]
        ELSE IF cache_creation_tokens.v > 0
        THEN [cache |-> [hit EXCEPT !.cache_stats.misses = @ + 1], raised |-> FALSE]
        ELSE [cache |-> hit, raised |-> FALSE]

\* PromptCache.get_cache_stats
GetCacheStats(cache) ==
    LET total_requests == cache.cache_stats.hits + cache.cache_stats.misses
        hit_rate == IF total_requests = 0 THEN 0
                    ELSE RoundDiv(cache.cache_stats.hits * 1000, total_requests)
    IN  [total_requests |-> total_requests,
         cache_hits |-> cache.cache_stats.hits,
         cache_misses |-> cache.cache_stats.misses,
         hit_rate_percentage |-> hit_rate,
         total_savings_usd |-> Round2(cache.cache_stats.savings_usd),
         estimated_monthly_savings |-> Round2(cache.cache_stats.savings_usd * 30)]

\* PromptCache.reset_stats
ResetStats(cache) == [cache EXCEPT !.cache_stats = NewCacheStats]

(***************************************************************************)
(* The calls made to the prompt cache and to CacheStrategy.                *)
(***************************************************************************)
\* the system prompts, by their length in characters and in tokens
SystemPrompts == { TextOf(40, 10), TextOf(4092, 1023), TextOf(4096, 1024) }

\* the tool definitions of the caller: None, or a list of 0, 1, 3 or 4
ToolDef(name) == [name |-> name]
ToolLists ==
    { PyNone, PyList(<<>>), PyList(<<ToolDef("a")>>),
      PyList(<<ToolDef("a"), ToolDef("b"), ToolDef("c")>>),
      PyList(<<ToolDef("a"), ToolDef("b"), ToolDef("c"), ToolDef("d")>>) }

\* response.usage: without the cache fields, with counts, and with None
CacheUsages ==
    { [input_tokens |-> PyInt(10)],
      [cache_creation_input_tokens |-> PyInt(2048), cache_read_input_tokens |-> PyInt(0)],
      [cache_creation_input_tokens |-> PyInt(0), cache_read_input_tokens |-> PyInt(2048)],
      [cache_creation_input_tokens |-> PyInt(0), cache_read_input_tokens |-> PyInt(50000)],
      [cache_creation_input_tokens |-> PyInt(100), cache_read_input_tokens |-> PyInt(50000)],
      [cache_creation_input_tokens |-> PyNone, cache_read_input_tokens |-> PyNone],
      [cache_creation_input_tokens |-> PyNone, cache_read_input_tokens |-> PyInt(2048)] }

\* the lengths, numbers of tools and numbers of turns asked about
PromptLengths == { 0, 1023, 1024, 1025 }
ToolCounts == { 0, 3, 4, 5 }
TurnCounts == { 0, 2, 3, 4 }

CacheConstructed == prompt_cache # PyNone

\* get_prompt_cache() builds the singleton on its first call
CallGetPromptCache ==
    /\ ~CacheConstructed
    /\ prompt_cache' = NewPromptCache
    /\ UNCHANGED <<runVars, budgetVars, routerVars>>

\* create_message_with_caching(client, model, system, messages, ...): the
\* request is assembled, the API call returns a response or raises, and the
\* cache usage of the response is recorded
CallCreateMessageWithCaching ==
    /\ CacheConstructed
    /\ prompt_cache.cache_stats.hits + prompt_cache.cache_stats.misses < MaxCached
    /\ \E system \in SystemPrompts, tools \in ToolLists, cache_system \in BOOLEAN,
          cache_tools \in BOOLEAN :
          LET a == AssembleRequest("claude-sonnet-4-5", system, <<UserTurn("q")>>, 4096, 7,
                                   tools, cache_system, cache_tools)
              call == [op |-> "create_message_with_caching",
                       args |-> <<system, tools, cache_system, cache_tools>>,
                       request |-> a.request, tools |-> a.tools]
          IN  \/ /\ last' = call @@ [result |-> Raises(ApiErrorMsg)]
                 /\ UNCHANGED prompt_cache
              \/ \E usage \in CacheUsages :
                    LET r == RecordCacheUsage(prompt_cache, usage)
                    IN  /\ prompt_cache' = r.cache
                        /\ last' = call @@
                              [result |-> IF r.raised THEN Raises(NoneCompareMsg)
                                          ELSE Returns([usage |-> usage])]
    /\ UNCHANGED <<token_manager, today>>
    /\ UNCHANGED <<runVars, routerVars>>

\* get_cache_stats()
CallGetCacheStats ==
    /\ CacheConstructed
    /\ last' = [op |-> "get_cache_stats", args |-> <<>>,
                 result |-> Returns(GetCacheStats(prompt_cache))]
    /\ UNCHANGED <<token_manager, today, prompt_cache>>
    /\ UNCHANGED <<runVars, routerVars>>

\* reset_stats()
CallResetStats ==
    /\ CacheConstructed
    /\ prompt_cache' = ResetStats(prompt_cache)
    /\ last' = [op |-> "reset_stats", args |-> <<>>, result |-> Returns(PyNone)]
    /\ UNCHANGED <<token_manager, today>>
    /\ UNCHANGED <<runVars, routerVars>>

\* CacheStrategy.should_cache_system_prompt(prompt_length)
CallShouldCacheSystemPrompt ==
    /\ \E prompt_length \in PromptLengths :
          last' = [op |-> "should_cache_system_prompt", args |-> prompt_length,
                   result |-> Returns(ShouldCacheSystemPrompt(prompt_length))]
    /\ UNCHANGED <<token_manager, today, prompt_cache>>
    /\ UNCHANGED <<runVars, routerVars>>

\* CacheStrategy.should_cache_tools(num_tools)
CallShouldCacheTools ==
    /\ \E num_tools \in ToolCounts :
          last' = [op |-> "should_cache_tools", args |-> num_tools,
                   result |-> Returns(ShouldCacheTools(num_tools))]
    /\ UNCHANGED <<token_manager, today, prompt_cache>>
    /\ UNCHANGED <<runVars, routerVars>>

\* CacheStrategy.should_cache_conversation_history(num_turns)
CallShouldCacheConversationHistory ==
    /\ \E num_turns \in TurnCounts :
          last' = [op |-> "should_cache_conversation_history", args |-> num_turns,
                   result |-> Returns(ShouldCacheConversationHistory(num_turns))]
    /\ UNCHANGED <<token_manager, today, prompt_cache>>
    /\ UNCHANGED <<runVars, routerVars>>

\* CacheStrategy.get_optimal_cache_points(system_prompt_tokens, num_tools,
\* conversation_turns)
CallGetOptimalCachePoints ==
    /\ \E system_prompt_tokens \in PromptLengths, num_tools \in ToolCounts,
          conversation_turns \in TurnCounts :
          last' = [op |-> "get_optimal_cache_points",
                   args |-> <<system_prompt_tokens, num_tools, conversation_turns>>,
                   result |-> Returns(GetOptimalCachePoints(system_prompt_tokens, num_tools,
                                                            conversation_turns))]
    /\ UNCHANGED <<token_manager, today, prompt_cache>>
    /\ UNCHANGED <<runVars, routerVars>>

CacheNext ==
    \/ CallGetPromptCache
    \/ CallCreateMessageWithCaching
    \/ CallGetCacheStats
    \/ CallResetStats
    \/ CallShouldCacheSystemPrompt
    \/ CallShouldCacheTools
    \/ CallShouldCacheConversationHistory
    \/ CallGetOptimalCachePoints

\* the process starts: as Init, in the one environment it is deployed to
CacheInit == Init /\ environment = "development"

CacheSpec == CacheInit /\ [][CacheNext]_vars

Hinted(list) == { k \in 1..Len(list) : "cache_control" \in DOMAIN list[k] }

\* C28 as stated: in the request that create_message_with_caching assembles
\* the system prompt carries a cache hint only if it has at least 1024
\* tokens, the tool list only if it has more than 3 entries, and a hinted
\* tool list carries the hint on its last tool only.
C28_Original ==
    (CacheConstructed /\ last.op = "create_message_with_caching") =>
        LET tools == IF "tools" \in DOMAIN last.request THEN last.request.tools.items
                     ELSE <<>>
        IN  /\ Hinted(last.request.system) # {} => last.args[1].tokens >= 1024
            /\ Hinted(tools) # {} => Len(tools) > 3
            /\ Hinted(tools) # {} => Hinted(tools) = {Len(tools)}

\* a step of a prompt cache that exists before and after it
CacheStep == CacheConstructed /\ prompt_cache' # PyNone

C29_CountersStep ==
    (CacheStep /\ last'.op # "reset_stats") =>
        /\ prompt_cache'.cache_stats.hits >= prompt_cache.cache_stats.hits
        /\ prompt_cache'.cache_stats.hits <= prompt_cache.cache_stats.hits + 1
        /\ prompt_cache'.cache_stats.misses >= prompt_cache.cache_stats.misses
        /\ prompt_cache'.cache_stats.misses <= prompt_cache.cache_stats.misses + 1
        /\ prompt_cache'.cache_stats.savings_usd >= prompt_cache.cache_stats.savings_usd

C29_Stats ==
    (CacheConstructed /\ last.op = "get_cache_stats") =>
        LET r == last.result.value
        IN  /\ ~last.result.raised
            /\ r.cache_hits = prompt_cache.cache_stats.hits
            /\ r.cache_misses = prompt_cache.cache_stats.misses
            /\ r.total_requests = r.cache_hits + r.cache_misses
            /\ r.hit_rate_percentage >= 0
            /\ r.hit_rate_percentage <= 1000

\* C29: between two reset_stats calls the hit counter, the miss counter and
\* the savings of the prompt cache never go down, a recorded response
\* raises each counter by at most one, and get_cache_stats reports
\* total_requests = hits + misses and a hit rate from 0 to 100.
C29_Counters == [][C29_CountersStep]_vars /\ []C29_Stats

\* the statistics were read after two hits and a miss
C29_Witness ==
    /\ CacheConstructed
    /\ last.op = "get_cache_stats"
    /\ last.result.value.cache_hits = 2
    /\ last.result.value.cache_misses = 1
    /\ last.result.value.hit_rate_percentage = 667

(***************************************************************************)
(* Properties of conversation_history over a session of several runs.      *)
(***************************************************************************)
\* a model call of the running agent returned a response in this step
ModelCallReturned ==
    /\ Depth = 1
    /\ Len(frames') = 1
    /\ frames'[1].calls = frames[1].calls + 1
    /\ frames'[1].exit # "except"

\* the agents whose history this step changed
HistoryChanged == {a \in AgentIds : conversation_history'[a] # conversation_history[a]}

C30_RunStep ==
    frames' # frames =>
        /\ \A a \in AgentIds : IsPrefix(conversation_history[a], conversation_history'[a])
        /\ IF ModelCallReturned
           THEN /\ HistoryChanged = {frames[1].agent}
                /\ conversation_history'[frames[1].agent] =
                      Append(conversation_history[frames[1].agent],
                             [role |-> "assistant",
                              content |-> frames'[1].response.content,
                              stop_reason |-> frames'[1].response.stop_reason])
           ELSE HistoryChanged = {}

C30_ResetStep ==
    (frames' = frames /\ HistoryChanged # {}) =>
        \E a \in AgentIds :
            /\ conversation_history[a] # <<>>
            /\ conversation_history' = [conversation_history EXCEPT ![a] = <<>>]

C30_SameAgents == agents = [a \in AgentIds |-> NewAgent(a)]

\* C30: conversation_history is an append-only log: a model call of a run
\* that returns a response appends exactly one assistant entry, holding the
\* content and stop reason of the response, at the end of the history of
\* the running agent and of no other; no other step of a run, over several
\* runs and failed runs, changes a history, so entries present are never
\* modified, removed or reordered by run; a history is emptied only by
\* reset_conversation, and the agent_id, model, temperature and max_tokens
\* of every agent stay as constructed.
C30_AppendOnlyLog ==
    [][C30_RunStep /\ C30_ResetStep]_vars /\ []C30_SameAgents

\* a later run of an agent failed with the entries of an earlier run kept
C30_Witness ==
    /\ Depth = 1
    /\ Top.pc = "returned"
    /\ Top.exit = "except"
    /\ Top.calls = 1
    /\ Len(conversation_history[Top.agent]) >= 2

(***************************************************************************)
(* Properties of the conversation that a run sends to the model.           *)
(***************************************************************************)
\* the turns of a message list alternate, the first being a user turn
Alternates(messages) ==
    \A k \in 1..Len(messages) :
        messages[k].role = (IF k % 2 = 1 THEN "user" ELSE "assistant")

\* the message list of a run that built its first message
TurnParity(f) ==
    f.messages # <<>> =>
        /\ f.messages[1] = UserTurn(BuildUserMessage(f.task, f.context).value)
        /\ Alternates(f.messages)
        /\ f.messages[Len(f.messages)].role = "user"
        /\ f.pc = "loop" => Len(f.messages) = 2 * (f.calls + 1) - 1
        /\ f.pc \in {"dispatch", "await"} => Len(f.messages) = 2 * f.calls - 1

\* C32: in every state of a run the message list starts with the user turn
\* built from task and context, alternates user and assistant turns and
\* ends with a user turn; at the loop head, where the k-th model call is
\* made after k - 1 calls, it has exactly 2k - 1 turns, and it keeps that
\* length while the tool calls of the k-th response are dispatched.
C32_TurnParity == \A i \in 1..Depth : TurnParity(frames[i])

\* a run is about to make its second model call with three turns
C32_Witness ==
    /\ Depth >= 1
    /\ Top.pc = "loop"
    /\ LoopCondition(Top)
    /\ Top.calls = 1
    /\ Len(Top.messages) = 3
    /\ Top.messages[2] = AssistantTurn(Top.response.content)

(***************************************************************************)
(* Properties of the usage that a successful run reports.                  *)
(***************************************************************************)
UsageOfFinalResponse(f) ==
    EndedViaEndTurn(f) =>
        /\ f.result.usage = [input_tokens |-> f.response.usage.input_tokens,
                             output_tokens |-> f.response.usage.output_tokens]
        /\ f.calls > 1 =>
              /\ f.result.usage # f.spent
              /\ f.result.usage.input_tokens < f.spent.input_tokens
              /\ f.result.usage.output_tokens < f.spent.output_tokens

\* C40: the usage in a successful RunResult is the token usage of the
\* final, end_turn response alone; when the run made more than one model
\* call it is less than the tokens of all the responses the run received,
\* whether or not a specialist run was delegated in between.
C40_FinalUsageOnly == \A i \in 1..Depth : UsageOfFinalResponse(frames[i])

\* the Manager succeeded at its second call, after a specialist run whose
\* result carried a usage of its own
C40_Witness ==
    /\ Depth = 1
    /\ Top.agent = ManagerId
    /\ EndedViaEndTurn(Top)
    /\ Top.calls = 2
    /\ Top.delegations = 1
    /\ Top.spent.input_tokens > Top.result.usage.input_tokens
    /\ \E k \in 1..Len(Top.messages[3].content) :
          /\ "usage" \in DOMAIN Top.messages[3].content[k].content.of

(***************************************************************************)
(* Properties of the last pass of the loop.                                *)
(***************************************************************************)
\* the run left the loop after a response that asked for tools
LastPassToolUse(f) ==
    Returned(f) /\ f.exit = "fallthrough" /\ f.response.stop_reason = "tool_use"

\* the specialist runs started at depth d since the last model call there
RunsSince(d) ==
    SelectSeq(SubSeq(events, LastModelCall(d) + 1, Len(events)),
              LAMBDA e : e.depth = d /\ e.op = "run")

LastPassDispatched(d) ==
    LET f == frames[d]
        n == Len(f.messages)
    IN  LastPassToolUse(f) =>
            /\ f.iteration = f.max_iterations
            /\ f.calls = f.max_iterations
            /\ n = 2 * f.max_iterations + 1
            /\ f.messages[n - 1] = AssistantTurn(f.response.content)
            /\ f.messages[n].role = "user"
            /\ ResultIds(f.messages[n].content) = BlockIds(f.response.content)
            /\ BlocksSince(d) = StartEndPairs(d, BlockIds(f.response.content))
            /\ Len(RunsSince(d)) =
                  (IF IsManager(f.agent) THEN Len(Delegating(f.response.content)) ELSE 0)
            /\ f.result = [success |-> FALSE, error |-> MaxIterationsMsg,
                           agent_id |-> f.agent, iterations |-> f.max_iterations]

\* C36: when the response of the last permitted pass has stop reason
\* tool_use and its dispatch raises nothing, every tool-invocation block
\* of it was dispatched, one after the other, the specialist runs it
\* delegates included, and the assistant turn and the batch of results, one
\* per block in order, were appended to the messages; no further model call
\* was made and the run returned the failure "Max iterations reached" with
\* iterations = max_iterations.
C36_LastPassDispatched == \A d \in 1..Depth : LastPassDispatched(d)

\* the Manager, allowed one pass, delegated to the analyst in it and
\* returned the failure
C36_Witness ==
    /\ Depth = 1
    /\ Top.agent = ManagerId
    /\ Top.max_iterations = 1
    /\ LastPassToolUse(Top)
    /\ Len(RunsSince(1)) = 1
    /\ Len(Top.messages[3].content) = 2

(***************************************************************************)
(* Properties of the number of model calls of a Manager run.               *)
(***************************************************************************)
\* the model calls made so far, by the caller's run and the runs under it
ModelCalls == Len(SelectSeq(events, LAMBDA e : e.op = "model"))

\* the specialist runs started so far
SpecialistRuns == Len(SelectSeq(events, LAMBDA e : e.op = "run"))

\* most delegation blocks in one response of the model
RECURSIVE MostDelegating(_)
MostDelegating(templates) ==
    IF templates = {} THEN 0
    ELSE LET t == CHOOSE x \in templates : TRUE
             rest == MostDelegating(templates \ {t})
         IN  IF Len(Delegating(t.content)) > rest THEN Len(Delegating(t.content)) ELSE rest

C34_StartStep ==
    (Depth >= 1 /\ Len(frames') > Depth) =>
        /\ Depth = 1
        /\ IsManager(Top.agent)
        /\ Len(frames') = 2
        /\ frames'[2].agent \in SpecialistIds
        /\ ~IsManager(frames'[2].agent)

\* a step in which an agent handles a block named call_<id>_agent that
\* starts no run: a specialist gets the registry's failure, the Manager
\* asked for itself gets the unknown-specialist failure
C34_CallBlockStep ==
    (/\ Depth >= 1
     /\ Top.pc = "dispatch"
     /\ AtBlock(Top)
     /\ IsSpecialistCall(Top.response.content[Top.bi].name)
     /\ frames' # frames
     /\ Len(frames') = Depth) =>
        LET block == Top.response.content[Top.bi]
            g == frames'[Depth]
        IN  /\ ~IsManager(Top.agent) =>
                  /\ g.tool_results =
                        Append(Top.tool_results,
                               [type |-> "tool_result", tool_use_id |-> block.id,
                                content |-> [enc |-> "str", of |-> ToolNotFound(block.name)]])
                  /\ NewEvents = <<Event("block_start", Depth, block.id),
                                   Event("execute_tool", Depth, block.name),
                                   Event("block_end", Depth, block.id)>>
            /\ (IsManager(Top.agent) /\ block.name = CallTool(ManagerId)) =>
                  /\ g.tool_results =
                        Append(Top.tool_results,
                               [type |-> "tool_result", tool_use_id |-> block.id,
                                content |-> [enc |-> "json",
                                             of |-> UnknownSpecialist(ManagerId)]])
                  /\ \A k \in 1..Len(NewEvents) : NewEvents[k].op # "run"

C34_TwoLevels == Depth <= 2 /\ (Depth = 2 => IsManager(frames[1].agent))

\* C34: at most two runs are nested, a Manager run and one specialist run
\* under it: only the Manager's dispatch starts a run, and only of a
\* registered specialist, never of the Manager; a block call_<id>_agent in
\* the response of a specialist is passed to the registry and answered
\* with its 'tool not found' failure, and the Manager asked to call itself
\* answers with the unknown-specialist failure.
C34_DelegationDepth == []C34_TwoLevels /\ [][C34_StartStep /\ C34_CallBlockStep]_vars

\* the analyst started by the Manager asked for the analyst and was
\* answered by the registry
C34_Witness ==
    /\ Depth = 2
    /\ frames[2].agent = "analyst"
    /\ frames[2].pc = "loop"
    /\ frames[2].calls = 1
    /\ frames[2].messages[3].content[1].content.of = ToolNotFound(CallTool("analyst"))

(***************************************************************************)
(* Properties of the tools that the Manager does not intercept.            *)
(***************************************************************************)
\* the Manager stands at a block that names neither a specialist call nor
\* the approval tool
AtGenericBlock(f) ==
    /\ IsManager(f.agent)
    /\ f.pc = "dispatch"
    /\ AtBlock(f)
    /\ ~IsSpecialistCall(f.response.content[f.bi].name)
    /\ f.response.content[f.bi].name # ApprovalTool

\* what the dispatch of a specialist would do with the block
C33_SameAsSpecialist ==
    (Depth >= 1 /\ AtGenericBlock(Top)) =>
        \A a \in SpecialistIds :
            Dispatch(ManagerId, Top.response.content[Top.bi], environment)
               = Dispatch(a, Top.response.content[Top.bi], environment)

\* the step of the Manager at such a block
C33_GenericStep ==
    (Depth >= 1 /\ AtGenericBlock(Top) /\ frames' # frames) =>
        LET block == Top.response.content[Top.bi]
            g == frames'[Depth]
        IN  /\ Len(frames') = Depth
            /\ Len(NewEvents) >= 2
            /\ NewEvents[2] = Event("execute_tool", Depth, block.name)
            /\ \E o \in ExecuteTool(block.name, block.input) :
                  IF o.raised
                  THEN /\ Returned(g)
                       /\ g.result = [success |-> FALSE, error |-> o.error,
                                       agent_id |-> ManagerId]
                  ELSE /\ g.pc = "dispatch"
                       /\ g.bi = Top.bi + 1
                       /\ g.tool_results =
                             Append(Top.tool_results,
                                    [type |-> "tool_result", tool_use_id |-> block.id,
                                     content |-> [enc |-> "json", of |-> o.value]])
            /\ block.name \notin RegisteredTools =>
                  /\ g.pc = "dispatch"
                  /\ g.tool_results[Len(g.tool_results)].content.of = ToolNotFound(block.name)

\* C33: in the Manager's dispatch a block whose name is neither
\* call_<id>_agent nor request_human_approval is passed with its name and
\* input unchanged to the registry's execute_tool, and its outcome, the
\* result or the exception, is one that the dispatch of a specialist has
\* for the same block, the 'tool not found' failure for an unregistered
\* name included; the Manager serializes the result as JSON.
C33_FallThrough == []C33_SameAsSpecialist /\ [][C33_GenericStep]_vars

\* the Manager asked for a tool that is not registered and holds the
\* registry's failure
C33_Witness ==
    /\ Depth = 1
    /\ IsManager(Top.agent)
    /\ Top.pc = "dispatch"
    /\ Top.bi = 4
    /\ Len(Top.tool_results) = 2
    /\ Top.tool_results[2].content = [enc |-> "json", of |-> ToolNotFound(NoSuchTool)]

(***************************************************************************)
(* Properties of the Manager's tool set.                                   *)
(***************************************************************************)
\* the positions of the tools named call_<id>_agent in a tool list
CallTools(tools) == { k \in 1..Len(tools) : StrIsSpecialistCall(tools[k]) }

ManagerToolSet(f) ==
    IsManager(f.agent) =>
        LET n == Len(f.tools)
            g == Len(GenericToolNames)
            calls == CallTools(f.tools)
            ids == [k \in calls |-> StrExtractAgentId(f.tools[k])]
        IN  /\ n = g + Cardinality(SpecialistIds) + 1
            /\ SubSeq(f.tools, 1, g) = GenericToolNames
            /\ calls = (g + 1)..(n - 1)
            /\ f.tools[n] = "request_human_approval"
            /\ \A k \in calls :
                  /\ ids[k] \in SpecialistIds
                  /\ f.tools[k] = JoinTokens(CallTool(ids[k]))
            /\ \A id \in SpecialistIds :
                  Cardinality({ k \in calls : ids[k] = id }) = 1

\* the tools that a specialist passes are the generic ones
SpecialistToolSet(f) ==
    ~IsManager(f.agent) => f.tools = GenericToolNames

\* a step in which the running agent calls the model, passing its tools
C37_ModelCallStep ==
    (Depth >= 1 /\ Len(frames') = Depth /\ frames'[Depth].calls = Top.calls + 1) =>
        /\ frames'[Depth].tools = Top.tools
        /\ ManagerToolSet(Top)
        /\ SpecialistToolSet(Top)

\* C37: the tool list that the Manager passes to the model is the generic
\* tool list, then one tool call_<id>_agent for each registered specialist,
\* then request_human_approval; the identifier that the dispatch extracts
\* from each call_<id>_agent name it advertises is a key of the specialist
\* table, and every registered specialist is named by exactly one tool.
C37_ManagerTools == [][C37_ModelCallStep]_vars

\* the Manager made a model call with its nine tools and a specialist that
\* one of them names is running
C37_Witness ==
    /\ Depth = 2
    /\ IsManager(frames[1].agent)
    /\ frames[1].calls >= 1
    /\ Len(frames[1].tools) = 9
    /\ \E k \in CallTools(frames[1].tools) :
          StrExtractAgentId(frames[1].tools[k]) = frames[2].agent

(***************************************************************************)
(* The host: it constructs the token manager and the prompt cache, records *)
(* usage, asks for the budget, and runs agents.                            *)
(***************************************************************************)
\* no run is in progress
Idle == frames = <<>>

\* the token manager as the host constructs it
HostBudget == [t |-> "float", v |-> 10 * Cent]

\* the usage that the host records: one call billed at the default price
HostUsage == <<"manager", 10000, 10000, "gpt-4">>

\* the cache usage of the response to the host's message: a cache hit
HostCacheUsage ==
    [cache_creation_input_tokens |-> PyInt(0), cache_read_input_tokens |-> PyInt(2048)]

\* the call that the host asks the token manager about
HostCall == <<TextOf(3, 1), 0, "claude-haiku">>

\* the runs that the host starts: the Manager, and a specialist of the base class
HostRuns ==
    {[agent |-> ManagerId, context |-> PyDict(<< <<"p", "x">> >>)],
     [agent |-> "system_builder", context |-> PyNone]}

\* the host sends one message through the prompt cache, constructs the
\* token manager, records the usage of its calls, asks whether budget is
\* left, and runs an agent after it asked whether a call is allowed
HostNext ==
    \/ Idle /\ CallGetPromptCache
    \/ /\ Idle
       /\ ~Constructed
       /\ CacheConstructed
       /\ prompt_cache.cache_stats.hits + prompt_cache.cache_stats.misses = 0
       /\ CallCreateMessageWithCaching
       /\ last'.args = <<TextOf(4096, 1024), PyNone, TRUE, FALSE>>
       /\ last'.result = Returns([usage |-> HostCacheUsage])
    \/ /\ Idle
       /\ CacheConstructed
       /\ prompt_cache.cache_stats.hits + prompt_cache.cache_stats.misses > 0
       /\ CallGetTokenManager
       /\ token_manager' = NewTokenManager(HostBudget, TRUE)
    \/ Idle /\ CallRecordUsage /\ last'.args = HostUsage
    \/ Idle /\ CallCheckBudgetAvailable
    \/ Idle /\ CallShouldAllowCall /\ last'.args = HostCall
    \/ \E r \in HostRuns, task \in CallerTasks, mi \in 1..MaxIter :
          /\ last.op = "should_allow_call"
          /\ StartRun(r.agent, task, r.context, mi)
    \/ CallModel
    \/ CallModelRaises
    \/ LoopExit
    \/ DispatchBlock
    \/ Delegate
    \/ ReturnToManager
    \/ FinishDispatch

\* the process starts: as Init, in the one environment it is deployed to
HostInit == Init /\ environment = "development"

HostSpec == HostInit /\ [][HostNext]_vars

\* a step of a run: its frames, the trace or a conversation_history change
RunStep == runVars' # runVars

\* the token manager says that the budget of the day is used up
BudgetExhausted ==
    /\ Constructed
    /\ LET available == CheckBudgetAvailable(token_manager, today)
       IN  ~available.raised /\ ~available.value

\* a run is at the head of its loop with passes left
AtModelCall == Depth >= 1 /\ Top.pc = "loop" /\ LoopCondition(Top)

\* C38 (the model call): a run at the head of its loop with passes left
\* can make its model call, whether or not budget is left
C38_Proceeds == AtModelCall => ENABLED CallModel

\* C38 (the frame): a step of a run, of the base class or of the Manager,
\* leaves the token manager with its ledger, the prompt cache with its
\* counters, the router, and the record of the last call made to one of
\* them as they were: it records nothing and asks for nothing
C38_RunStep ==
    RunStep => UNCHANGED <<token_manager, today, last, model_router, first_route,
                           prompt_cache>>

\* C38: run leaves the budget ledger and the cache counters unchanged, does
\* not consult should_allow_call, and proceeds with its model calls when
\* the daily budget is exhausted
C38_Unmetered == []C38_Proceeds /\ [][C38_RunStep]_vars

\* should_allow_call refused the call, the budget of the day is used up,
\* and the Manager's run made its model calls, delegated and returned its
\* result with the ledger and the counters as the host left them
C38_Witness ==
    /\ BudgetExhausted
    /\ last.op = "should_allow_call"
    /\ ~last.result.raised
    /\ ~last.result.value.allow
    /\ prompt_cache.cache_stats.hits + prompt_cache.cache_stats.misses = 1
    /\ Depth = 1
    /\ Top.agent = ManagerId
    /\ EndedViaEndTurn(Top)
    /\ Top.calls >= 2
    /\ Top.delegations >= 1

(***************************************************************************)
(* Two requests for the same agent: the API serves both with the one       *)
(* instance it keeps, and a run gives way to the other only where it waits *)
(* for the HTTP request of a tool.                                         *)
(***************************************************************************)
\* the agent that both requests run, and the task of each
SharedAgent == "system_builder"
FirstTask == PyStr("T")
SecondTask == PyStr("U")

\* the run waits inside WebSearchTool.execute for the reply to its request
AtAwait(f) ==
    /\ f.pc = "dispatch"
    /\ AtBlock(f)
    /\ f.response.content[f.bi].name = WebSearch
    /\ f.response.content[f.bi].input = Query

\* the run is over
Over(f) == f.pc \in {"returned", "raised"}

\* the second request arrives while the run of the first waits: its run
\* starts on the same agent
StartSecond(task, context, mi) ==
    /\ Depth = 1
    /\ AtAwait(Top)
    /\ suspended = <<>>
    /\ suspended' = frames
    /\ frames' = <<EnterRun(Top.agent, task, context, mi)>>
    /\ UNCHANGED <<conversation_history, environment, agents, events>>
    /\ UNCHANGED serviceVars

\* the event loop goes on with the other run, which waited: the run that
\* was running waits or is over
Resume ==
    /\ Depth = 1
    /\ suspended # <<>>
    /\ AtAwait(Top) \/ Over(Top)
    /\ ~Over(suspended[1])
    /\ frames' = suspended
    /\ suspended' = frames
    /\ UNCHANGED <<conversation_history, environment, agents, events>>
    /\ UNCHANGED serviceVars

ConcNext ==
    \/ \E mi \in 1..MaxIter : StartRun(SharedAgent, FirstTask, PyNone, mi)
    \/ \E mi \in 1..MaxIter : StartSecond(SecondTask, PyNone, mi)
    \/ Resume
    \/ CallModel
    \/ CallModelRaises
    \/ LoopExit
    \/ DispatchBlock
    \/ FinishDispatch

\* the process starts: as Init, in the one environment it is deployed to
ConcInit == Init /\ environment = "development"

ConcSpec == ConcInit /\ [][ConcNext]_vars

(***************************************************************************)
(* Properties of the runs of an agent that was run before.                 *)
(***************************************************************************)
\* the passes of the run that ended with a dispatch, by its own messages
Rounds(f) == (Len(f.messages) - 1) \div 2

\* the RunResult as a function of what the run was given and received:
\* its agent, the turns it built from task, context and tool results, the
\* last response, the exception that ended it and the reading of the clock
ResultOfRun(f) ==
    CASE f.exit = "end_turn" ->
            [success |-> TRUE, agent_id |-> f.agent,
             result |-> ExtractResult(f.response),
             iterations |-> Rounds(f) + 1,
             elapsed_seconds |-> f.result.elapsed_seconds,
             usage |-> [input_tokens |-> f.response.usage.input_tokens,
                        output_tokens |-> f.response.usage.output_tokens]]
      [] f.exit = "fallthrough" ->
            [success |-> FALSE, error |-> MaxIterationsMsg, agent_id |-> f.agent,
             iterations |-> IF f.response.stop_reason = "tool_use" THEN Rounds(f)
                            ELSE Rounds(f) + 1]
      [] f.exit = "except" ->
            [success |-> FALSE, error |-> f.result.error, agent_id |-> f.agent]

\* C31: the RunResult of every run of a session, whatever the agent's
\* conversation_history holds from earlier runs, failed runs and resets,
\* is the one that the run's own task, context, max_iterations, responses
\* and tool results determine, as on an agent that was just constructed:
\* the passes are counted from one, the run is allowed max_iterations
\* model calls of its own, and the result and usage are those of its last
\* response.
C31_Reusable ==
    (Depth = 1 /\ Returned(Top)) =>
        /\ Top.result = ResultOfRun(Top)
        /\ Top.calls = (IF Top.pc = "returned" /\ Top.exit = "fallthrough"
                           /\ Top.response.stop_reason = "tool_use"
                        THEN Rounds(Top) ELSE Rounds(Top) + 1)
        /\ Top.calls <= Top.max_iterations
        /\ Top.exit = "except" => Top.result.error \in {ApiErrorMsg, TypeErrorMsg}
        /\ Top.exit = "fallthrough" =>
              (Top.response.stop_reason = "tool_use" <=> Rounds(Top) = Top.max_iterations)

\* an agent succeeded at the first call of a run, after a run of it that
\* had failed on an unexpected stop reason
C31_Witness ==
    /\ Depth = 1
    /\ EndedViaEndTurn(Top)
    /\ Top.calls = 1
    /\ Top.result.iterations = 1
    /\ Len(conversation_history[Top.agent]) >= 2
    /\ LET h == conversation_history[Top.agent]
       IN  /\ h[Len(h) - 1].stop_reason = "max_tokens"
           /\ h[Len(h)].stop_reason = "end_turn"

(***************************************************************************)
(* Properties of two runs interleaved on one agent.                        *)
(***************************************************************************)
\* the runs in progress or over: the one that runs and the one that waits
TheRuns == frames \o suspended

\* the last response of the run is not yet in its messages
ResponsePending(f) ==
    /\ f.response # NoResponse
    /\ ~(Rounds(f) >= 1 /\ f.messages[2 * Rounds(f)].content = f.response.content)

\* the entries of the responses that a run received, by its own messages
\* and its last response
Received(f) ==
    [i \in 1..Rounds(f) |->
        [role |-> "assistant", content |-> f.messages[2 * i].content,
         stop_reason |-> "tool_use"]]
    \o (IF ResponsePending(f) THEN <<HistoryEntry(f.response)>> ELSE <<>>)

\* h is an interleaving of a and b that keeps the order of each
RECURSIVE IsMerge(_, _, _)
IsMerge(h, a, b) ==
    IF h = <<>> THEN a = <<>> /\ b = <<>>
    ELSE \/ a # <<>> /\ Head(a) = Head(h) /\ IsMerge(Tail(h), Tail(a), b)
         \/ b # <<>> /\ Head(b) = Head(h) /\ IsMerge(Tail(h), a, Tail(b))

\* the messages of a run are its own: the user turn built from its task and
\* context, then for each pass an assistant turn and the results of the
\* tool_use blocks of that turn
OwnMessages(f) ==
    /\ f.messages # <<>>
    /\ f.messages[1] = UserTurn(BuildUserMessage(f.task, f.context).value)
    /\ \A i \in 1..Rounds(f) :
          LET blocks == ToolUseBlocks(f.messages[2 * i].content)
              results == f.messages[2 * i + 1].content
          IN  /\ f.messages[2 * i].role = "assistant"
              /\ Len(results) = Len(blocks)
              /\ \A k \in 1..Len(blocks) : results[k].tool_use_id = blocks[k].id

\* C39: of two runs interleaved on one agent, each has the messages built
\* from its own task, responses and tool results, each returns the
\* RunResult that its own responses determine, and the agent's
\* conversation_history is an interleaving of the entries of the two runs
\* that keeps the entries of each run in their order
C39_NoInterference ==
    /\ \A i \in 1..Len(TheRuns) :
          /\ OwnMessages(TheRuns[i])
          /\ Returned(TheRuns[i]) => TheRuns[i].result = ResultOfRun(TheRuns[i])
    /\ Len(TheRuns) = 2 => {TheRuns[1].task, TheRuns[2].task} = {FirstTask, SecondTask}
    /\ IsMerge(conversation_history[SharedAgent],
               IF Len(TheRuns) >= 1 THEN Received(TheRuns[1]) ELSE <<>>,
               IF Len(TheRuns) >= 2 THEN Received(TheRuns[2]) ELSE <<>>)

\* the first run used its tools and gave way, the second run got its answer
\* meanwhile, and the first then got its own: both succeeded, and the entry
\* of the second run lies between the two entries of the first
C39_Witness ==
    /\ Len(TheRuns) = 2
    /\ Top.task = FirstTask
    /\ EndedViaEndTurn(Top)
    /\ Top.result.iterations = 2
    /\ EndedViaEndTurn(suspended[1])
    /\ suspended[1].result.iterations = 1
    /\ LET h == conversation_history[SharedAgent]
       IN  /\ Len(h) = 3
           /\ h[1].stop_reason = "tool_use"
           /\ h[2] = HistoryEntry(suspended[1].response)
           /\ h[3] = HistoryEntry(Top.response)

====
